---- MODULE Spec2Model ----
(***************************************************************************)
(* osqtool: loading query sources into a name-to-record store, applying    *)
(* the configuration (filters, interval resolution, clamping) and the      *)
(* concurrent verification of every admitted query against osqueryi.       *)
(*                                                                         *)
(* Strings whose characters the code inspects (the interval text) are      *)
(* sequences of one-character strings; durations are whole seconds.        *)
(***************************************************************************)
EXTENDS Integers, Sequences, FiniteSets, TLC

\* ------------------------------------------------------------------ bounds

\* Source paths given on the command line.
MaxPaths == 2

\* Entries (.sql files of a tree, or queries of a pack) one source path holds.
MaxFiles == 2

\* Slowest single run of the backend, in seconds.
MaxElapsed == 5

\* Largest --workers value tried; also the largest CPU count of the host.
MaxWorkers == 2

\* ------------------------------------------------- constants of the program

\* main.go:368, the seconds of a day.
SecondsPerDay == 86400

\* Flag defaults of main(), durations in seconds.
DefaultMinInterval == 20
DefaultMaxInterval == 86400
DefaultIntervalSeconds == 3600
DefaultMaxResults == 250000
DefaultMaxQueryDuration == 4
DefaultMaxQueryDurationPerDay == 3600
DefaultMaxTotalQueryDurationPerDay == 21600

\* ------------------------------------------------------------ strconv

Digits == <<"0", "1", "2", "3", "4", "5", "6", "7", "8", "9">>

IsDigit(ch) == \E i \in 1..10 : Digits[i] = ch

DigitVal(ch) == (CHOOSE i \in 1..10 : Digits[i] = ch) - 1

RECURSIVE DigitsVal(_)
DigitsVal(s) ==
    IF s = <<>> THEN 0
    ELSE 10 * DigitsVal(SubSeq(s, 1, Len(s) - 1)) + DigitVal(s[Len(s)])

AllDigits(s) == Len(s) > 0 /\ \A i \in 1..Len(s) : IsDigit(s[i])

\* strconv.Atoi: an optional sign, then one or more decimal digits.
Atoi(s) ==
    LET signed == Len(s) > 0 /\ s[1] \in {"+", "-"}
        body   == IF signed THEN Tail(s) ELSE s
    IN  IF AllDigits(body)
        THEN [ok |-> TRUE,
              val |-> IF signed /\ s[1] = "-" THEN 0 - DigitsVal(body)
                      ELSE DigitsVal(body)]
        ELSE [ok |-> FALSE, val |-> 0]

RECURSIVE NatDigits(_)
NatDigits(n) ==
    IF n < 10 THEN <<Digits[n + 1]>>
    ELSE Append(NatDigits(n \div 10), Digits[(n % 10) + 1])

\* strconv.Itoa
Itoa(n) == IF n < 0 THEN <<"-">> \o NatDigits(0 - n) ELSE NatDigits(n)

\* Go's integer division truncates toward zero.
GoDiv(a, b) ==
    IF (a >= 0) = (b > 0)
    THEN (IF a >= 0 THEN a ELSE 0 - a) \div (IF b > 0 THEN b ELSE 0 - b)
    ELSE 0 - ((IF a >= 0 THEN a ELSE 0 - a) \div (IF b > 0 THEN b ELSE 0 - b))

\* ------------------------------------------------------------ strings

\* strings.Cut(s, sep) for a one-character separator.
Cut(s, sep) ==
    IF \E i \in 1..Len(s) : s[i] = sep
    THEN LET i == CHOOSE k \in 1..Len(s) :
                      s[k] = sep /\ \A j \in 1..(k - 1) : s[j] # sep
         IN  [before |-> SubSeq(s, 1, i - 1), after |-> SubSeq(s, i + 1, Len(s)),
              found |-> TRUE]
    ELSE [before |-> s, after |-> <<>>, found |-> FALSE]

\* strings.HasSuffix(s, "x")
HasSuffixX(s) == Len(s) > 0 /\ s[Len(s)] = "x"

\* strings.Contains(s, "x/")
ContainsXSlash(s) == \E i \in 1..(Len(s) - 1) : s[i] = "x" /\ s[i + 1] = "/"

\* strings.Trim(s, "x"): every leading and trailing x is removed.
RECURSIVE TrimX(_)
TrimX(s) ==
    IF s = <<>> THEN s
    ELSE IF s[1] = "x" THEN TrimX(Tail(s))
    ELSE IF s[Len(s)] = "x" THEN TrimX(SubSeq(s, 1, Len(s) - 1))
    ELSE s

\* 10^n
RECURSIVE Pow10(_)
Pow10(n) == IF n = 0 THEN 1 ELSE 10 * Pow10(n - 1)

\* strconv.ParseFloat for the decimal forms a modifier uses: digits with an
\* optional fraction, as the exact ratio num/den.
ParseFloat(s) ==
    LET c == Cut(s, ".")
    IN  IF ~c.found
        THEN IF AllDigits(s) THEN [ok |-> TRUE, num |-> DigitsVal(s), den |-> 1]
             ELSE [ok |-> FALSE, num |-> 0, den |-> 1]
        ELSE IF /\ (c.before # <<>> \/ c.after # <<>>)
                /\ \A i \in 1..Len(c.before) : IsDigit(c.before[i])
                /\ \A i \in 1..Len(c.after) : IsDigit(c.after[i])
             THEN [ok |-> TRUE,
                   num |-> DigitsVal(c.before) * Pow10(Len(c.after)) + DigitsVal(c.after),
                   den |-> Pow10(Len(c.after))]
             ELSE [ok |-> FALSE, num |-> 0, den |-> 1]

\* Seconds of one unit of time.ParseDuration; 0 for what is no unit here
\* (sub-second units are not used by the modelled inputs).
UnitSeconds(u) ==
    IF u = <<"s">> THEN 1
    ELSE IF u = <<"m">> THEN 60
    ELSE IF u = <<"h">> THEN 3600
    ELSE 0

\* time.ParseDuration followed by int(d.Seconds()), for one number-and-unit
\* group: digits then s, m or h.
ParseDuration(s) ==
    LET n == Len(s)
    IN  IF n >= 2 /\ AllDigits(SubSeq(s, 1, n - 1)) /\ UnitSeconds(<<s[n]>>) > 0
        THEN [ok |-> TRUE, seconds |-> DigitsVal(SubSeq(s, 1, n - 1)) * UnitSeconds(<<s[n]>>)]
        ELSE [ok |-> FALSE, seconds |-> 0]

\* ------------------------------------------------------- calculateInterval

\* int(float64(interval) / 0): the conversion of an infinity or a NaN to int
\* is implementation-dependent in Go and has no value here; no table of the
\* modelled inputs divides by zero.
IntOfInfinity == CHOOSE v \in {} : TRUE

\* One rule of the tag-interval table applied to the running interval.
applyTagInterval(interval, k, tags) ==
    LET c        == Cut(k, "=")
        tag      == c.before
        modifier == c.after
    IN  IF ~c.found THEN interval
        ELSE IF ~(\E i \in 1..Len(tags) : tags[i] = tag) THEN interval
        ELSE IF Atoi(modifier).ok THEN Atoi(modifier).val
        ELSE IF ParseDuration(modifier).ok THEN ParseDuration(modifier).seconds
        ELSE IF HasSuffixX(modifier)
             THEN LET x == ParseFloat(TrimX(modifier))
                  IN  IF x.ok THEN GoDiv(interval * x.num, x.den) ELSE interval
        ELSE IF ContainsXSlash(modifier)
             THEN LET d == ParseFloat(Cut(k, "/").after)
                  IN  IF ~d.ok THEN interval
                      ELSE IF d.num # 0 THEN GoDiv(interval * d.den, d.num)
                      ELSE IntOfInfinity
        ELSE interval

\* A calculateInterval that goes through the table from its last rule.
RECURSIVE foldTagIntervals_LastFirst(_, _, _)
foldTagIntervals_LastFirst(interval, table, tags) ==
    IF table = <<>> THEN interval
    ELSE applyTagInterval(foldTagIntervals_LastFirst(interval, Tail(table), tags),
                          Head(table), tags)

RECURSIVE foldTagIntervals(_, _, _)
foldTagIntervals(interval, table, tags) ==
    IF table = <<>> THEN interval
    ELSE foldTagIntervals(applyTagInterval(interval, Head(table), tags),
                          Tail(table), tags)

calculateInterval(m, c) == foldTagIntervals(c.DefaultInterval, c.TagIntervals, m.Tags)

\* ------------------------------------------------------------- applyConfig

\* The three maps applyConfig builds from the lists of the Config: the
\* empty string, which strings.Split gives for an empty flag, is left out.
excludeMap(c) == c.Exclude \ {""}

excludeTagsMap(c) == c.ExcludeTags \ {<<>>}

platformsMap(c) == c.Platforms \ {""}

\* An applyConfig whose allow-list also rejects the records of no platform.
applyConfigOne_UnsetPlatformRejected(name, m, c) ==
    IF name \in excludeMap(c)
    THEN [Deleted |-> TRUE, Failed |-> FALSE, m |-> m]
    ELSE
    LET byTag == \E i \in 1..Len(m.Tags) : m.Tags[i] \in excludeTagsMap(c)
    IN  IF platformsMap(c) # {} /\ m.Platform \notin platformsMap(c)
        THEN [Deleted |-> TRUE, Failed |-> FALSE, m |-> m]
        ELSE
        LET text == IF m.Interval = <<>> THEN Itoa(calculateInterval(m, c))
                    ELSE m.Interval
            i    == Atoi(text)
            max  == IF i.val > c.MaxInterval THEN Itoa(c.MaxInterval) ELSE text
            min  == IF i.val < c.MinInterval THEN Itoa(c.MinInterval) ELSE max
        IN  IF ~i.ok
            THEN [Deleted |-> byTag, Failed |-> TRUE,
                  m |-> [m EXCEPT !.Interval = text]]
            ELSE [Deleted |-> byTag, Failed |-> FALSE,
                  m |-> [m EXCEPT !.Interval = min]]

\* An applyConfig without the lower bound.
applyConfigOne_NoLowerBound(name, m, c) ==
    IF name \in excludeMap(c)
    THEN [Deleted |-> TRUE, Failed |-> FALSE, m |-> m]
    ELSE
    LET byTag == \E i \in 1..Len(m.Tags) : m.Tags[i] \in excludeTagsMap(c)
    IN  IF platformsMap(c) # {} /\ m.Platform # "" /\ m.Platform \notin platformsMap(c)
        THEN [Deleted |-> TRUE, Failed |-> FALSE, m |-> m]
        ELSE
        LET text == IF m.Interval = <<>> THEN Itoa(calculateInterval(m, c))
                    ELSE m.Interval
            i    == Atoi(text)
            max  == IF i.val > c.MaxInterval THEN Itoa(c.MaxInterval) ELSE text
        IN  IF ~i.ok
            THEN [Deleted |-> byTag, Failed |-> TRUE,
                  m |-> [m EXCEPT !.Interval = text]]
            ELSE [Deleted |-> byTag, Failed |-> FALSE,
                  m |-> [m EXCEPT !.Interval = max]]

\* An applyConfig that also takes a duration literal for an interval.
applyConfigOne_DurationsTaken(name, m, c) ==
    IF name \in excludeMap(c)
    THEN [Deleted |-> TRUE, Failed |-> FALSE, m |-> m]
    ELSE
    LET byTag == \E i \in 1..Len(m.Tags) : m.Tags[i] \in excludeTagsMap(c)
    IN  IF platformsMap(c) # {} /\ m.Platform # "" /\ m.Platform \notin platformsMap(c)
        THEN [Deleted |-> TRUE, Failed |-> FALSE, m |-> m]
        ELSE
        LET text == IF m.Interval = <<>> THEN Itoa(calculateInterval(m, c))
                    ELSE IF ParseDuration(m.Interval).ok
                    THEN Itoa(ParseDuration(m.Interval).seconds)
                    ELSE m.Interval
            i    == Atoi(text)
            max  == IF i.val > c.MaxInterval THEN Itoa(c.MaxInterval) ELSE text
            min  == IF i.val < c.MinInterval THEN Itoa(c.MinInterval) ELSE max
        IN  IF ~i.ok
            THEN [Deleted |-> byTag, Failed |-> TRUE,
                  m |-> [m EXCEPT !.Interval = text]]
            ELSE [Deleted |-> byTag, Failed |-> FALSE,
                  m |-> [m EXCEPT !.Interval = min]]

\* What applyConfig does to one entry of the map: Deleted when one of the
\* filters removed it from the map, Failed when its interval text does not
\* parse, m the record as it is left.  A tag match deletes the entry and
\* goes on with the next tag, then with the rest of the loop body.
applyConfigOne(name, m, c) ==
    IF name \in excludeMap(c)
    THEN [Deleted |-> TRUE, Failed |-> FALSE, m |-> m]
    ELSE
    LET byTag == \E i \in 1..Len(m.Tags) : m.Tags[i] \in excludeTagsMap(c)
    IN  IF platformsMap(c) # {} /\ m.Platform # "" /\ m.Platform \notin platformsMap(c)
        THEN [Deleted |-> TRUE, Failed |-> FALSE, m |-> m]
        ELSE
        LET text == IF m.Interval = <<>> THEN Itoa(calculateInterval(m, c))
                    ELSE m.Interval
            i    == Atoi(text)
            max  == IF i.val > c.MaxInterval THEN Itoa(c.MaxInterval) ELSE text
            min  == IF i.val < c.MinInterval THEN Itoa(c.MinInterval) ELSE max
        IN  IF ~i.ok
            THEN [Deleted |-> byTag, Failed |-> TRUE,
                  m |-> [m EXCEPT !.Interval = text]]
            ELSE [Deleted |-> byTag, Failed |-> FALSE,
                  m |-> [m EXCEPT !.Interval = min]]

\* applyConfig fails when the loop reaches an entry that fails.
applyConfigFails(mm, c) ==
    \E name \in DOMAIN mm : applyConfigOne(name, mm[name], c).Failed

\* The map applyConfig leaves when it returns nil.
applyConfig(mm, c) ==
    [name \in {n \in DOMAIN mm : ~applyConfigOne(n, mm[n], c).Deleted}
        |-> applyConfigOne(name, mm[name], c).m]

\* ------------------------------------------------------------------ inputs

QueryNames == {"dup", "other"}

PlatformNames == {"", "windows", "posix"}

HostPlatforms == {"linux", "windows"}

Disabled == <<"d", "i", "s", "a", "b", "l", "e", "d">>

\* Interval directives of the loaded queries that verification reaches.
IntervalTexts == {<<"0">>, <<"7", "2", "0", "0">>}

\* What one .sql file of a tree, or one query of a pack, loads as: every
\* interval on every platform, a query tagged disabled with no interval of
\* its own, and one whose interval is the duration literal 6h.
Entries ==
    [Name : QueryNames, Interval : IntervalTexts, Platform : PlatformNames,
     Tags : {<<>>}]
    \cup
    {[Name |-> "other", Interval |-> <<>>, Platform |-> "", Tags |-> <<Disabled>>],
     [Name |-> "other", Interval |-> <<"6", "h">>, Platform |-> "", Tags |-> <<>>]}

\* -tag-intervals default, main.go:50
DefaultTagIntervals ==
    << <<"t", "r", "a", "n", "s", "i", "e", "n", "t", "=", "6", "m">>,
       <<"p", "e", "r", "s", "i", "s", "t", "e", "n", "t", "=", "1", ".", "2", "5", "x">>,
       <<"p", "o", "s", "t", "m", "o", "r", "t", "e", "m", "=", "6", "h">>,
       <<"r", "a", "p", "i", "d", "=", "2", "0", "s">>,
       <<"o", "f", "t", "e", "n", "=", "x", "/", "3">>,
       <<"s", "e", "l", "d", "o", "m", "=", "3", "x">> >>

\* main(): the Config built from the flags.  -max-interval sets MinInterval
\* and is tried at its default and at 0s; -workers below 1 becomes the
\* CPU count of the host; -exclude and -platforms are left empty, which
\* strings.Split turns into the list of one empty string.
Configs ==
    {[MinInterval |-> lo,
      MaxInterval |-> DefaultMaxInterval,
      DefaultInterval |-> DefaultIntervalSeconds,
      TagIntervals |-> DefaultTagIntervals,
      Exclude |-> {""},
      ExcludeTags |-> {Disabled},
      Platforms |-> {""},
      Workers |-> IF w < 1 THEN cpus ELSE w,
      MaxResults |-> DefaultMaxResults,
      maxQueryDuration |-> DefaultMaxQueryDuration,
      maxQueryDurationPerDay |-> DefaultMaxQueryDurationPerDay,
      MaxTotalQueryDurationPerDay |-> DefaultMaxTotalQueryDurationPerDay] :
        lo \in {DefaultMinInterval, 0}, w \in 0..MaxWorkers, cpus \in 1..MaxWorkers}

\* ------------------------------------------------------------------- state

VARIABLES
    action,     \* args[0]: the command
    c,          \* the Config
    GOOS,       \* runtime.GOOS of the host
    pc,         \* where main is
    nloaded,    \* source paths read so far
    nfiles,     \* entries of the current source path read so far
    loaded,     \* the map the load of the current source path is filling
    mm,         \* the name-to-record store being built, then the active set
    err,        \* the error the command returned, "" for nil
    shadowed,   \* history: a loaded query replaced another of the same name
    conflicted, \* history: two source paths of loadAndApply held the same name
    applied,    \* history: applyConfig ran in loadAndApply
    task,       \* Verify: where the task of each query is
    sem,        \* Verify: permits of the semgroup in use
    ran,        \* history: what osqueryi did for each query
    vf,         \* Verify: what query.Run returned to each task
    outcome,    \* Verify: how each task ended
    backendCalls,       \* history: osqueryi invocations per query
    verified,           \* Verify: atomic counter
    partial,            \* Verify: atomic counter
    totalQueryDuration, \* Verify: atomic sum, seconds
    totalRuns,          \* Verify: atomic sum
    sgErrs,     \* the semgroup's error list: the failed queries as appended
    errored,    \* Verify: the errored count it logs
    errs,       \* Verify: the error list it joins
    step,       \* a function called on its own: "" before the call, then what ran
    arg,        \* a function called on its own: its arguments
    res         \* a function called on its own: what it returned

loadVars == <<nloaded, nfiles, loaded, mm, shadowed, conflicted, applied>>

taskVars == <<task, sem, ran, vf, outcome, backendCalls, verified, partial,
              totalQueryDuration, totalRuns, sgErrs>>

\* The variables of a function called on its own.
fnVars == <<step, arg, res>>

\* The variables of a command of main.
mainVars == <<action, c, GOOS, pc, err, loadVars, taskVars, errored, errs>>

vars == <<mainVars, fnVars>>

\* ----------------------------------------------------------------- loading

\* LoadFromDir, the walk's function on one .sql file: mm[m.Name] = m.
Store(store, m) ==
    [name \in DOMAIN store \cup {m.Name} |->
        IF name = m.Name THEN m ELSE store[name]]

\* for k, v := range loaded { mms[k] = v }
Merge(mms, from) ==
    [name \in DOMAIN mms \cup DOMAIN from |->
        IF name \in DOMAIN from THEN from[name] ELSE mms[name]]

\* A loadAndApply without its check: no name is ever found in mm.
Conflicts_Unchecked(store, from) == {}

\* loadAndApply: the names of loaded that mm already holds.
Conflicts(store, from) == DOMAIN store \cap DOMAIN from

\* main.go: the commands modelled.
Actions == {"verify", "pack", "unpack"}

NotRun == [ok |-> FALSE, noSuchTable |-> FALSE, Elapsed |-> 0, Rows |-> 0]

NoResult == [err |-> FALSE, IncompatiblePlatform |-> "", Rows |-> 0, Elapsed |-> 0]

Init ==
    /\ action \in Actions
    /\ c \in Configs
    /\ GOOS \in HostPlatforms
    /\ action # "verify" => GOOS = "linux" /\ c.Workers = 1
    /\ pc = IF action = "verify" THEN "load" ELSE action
    /\ nloaded = 0
    /\ nfiles = 0
    /\ loaded = <<>>
    /\ mm = <<>>
    /\ err = ""
    /\ shadowed = FALSE
    /\ conflicted = FALSE
    /\ applied = FALSE
    /\ task = [n \in QueryNames |-> "none"]
    /\ sem = 0
    /\ ran = [n \in QueryNames |-> NotRun]
    /\ vf = [n \in QueryNames |-> NoResult]
    /\ outcome = [n \in QueryNames |-> ""]
    /\ backendCalls = [n \in QueryNames |-> 0]
    /\ verified = 0
    /\ partial = 0
    /\ totalQueryDuration = 0
    /\ totalRuns = 0
    /\ sgErrs = <<>>
    /\ errored = 0
    /\ errs = <<>>
    /\ step = ""
    /\ arg = <<>>
    /\ res = <<>>

\* The load of the current source path reads its next entry: LoadFromDir
\* walks to the next .sql file of the tree (LoadPack decodes the next query
\* of the pack) and stores it under its name.
ReadEntry ==
    /\ pc \in {"load", "pack", "unpack"}
    /\ nloaded < MaxPaths
    /\ nfiles < MaxFiles
    /\ \E m \in Entries :
         /\ loaded' = Store(loaded, m)
         /\ shadowed' = (shadowed \/ m.Name \in DOMAIN loaded)
    /\ nfiles' = nfiles + 1
    /\ UNCHANGED <<fnVars, action, c, GOOS, pc, err, nloaded, mm, conflicted, applied,
                   taskVars, errored, errs>>

\* loadAndApply, one pass of its loop over the paths, after the load of the
\* path: its queries are added to mm unless mm holds one of the names.
LoadPath ==
    /\ pc = "load"
    /\ nloaded < MaxPaths
    /\ conflicted' = (conflicted \/ DOMAIN mm \cap DOMAIN loaded # {})
    /\ IF Conflicts(mm, loaded) # {}
       THEN /\ pc' = "failed"
            /\ err' = "conflict"
            /\ UNCHANGED <<mm, nloaded, nfiles, loaded>>
       ELSE /\ mm' = Merge(mm, loaded)
            /\ nloaded' = nloaded + 1
            /\ nfiles' = 0
            /\ loaded' = <<>>
            /\ UNCHANGED <<pc, err>>
    /\ UNCHANGED <<fnVars, action, c, GOOS, shadowed, applied, taskVars, errored, errs>>

\* loadAndApply after its loop: applyConfig on everything loaded; Verify
\* returns its error, or goes on to the verification of what is left.
LoadApply ==
    /\ pc = "load"
    /\ nloaded >= 1
    /\ nfiles = 0
    /\ applied' = TRUE
    /\ IF applyConfigFails(mm, c)
       THEN /\ pc' = "failed"
            /\ err' = "apply"
            /\ mm' = mm
       ELSE /\ pc' = "dispatch"
            /\ mm' = applyConfig(mm, c)
            /\ err' = err
    /\ UNCHANGED <<fnVars, action, c, GOOS, nloaded, nfiles, loaded, shadowed,
                   conflicted, taskVars, errored, errs>>

\* Pack and Unpack, one pass of their loop over the paths, after the load
\* of the path: applyConfig is applied to its queries, and they are copied
\* into the map of everything packed (unpacked).
CombinePath(which) ==
    /\ pc = which
    /\ nloaded < MaxPaths
    /\ IF applyConfigFails(loaded, c)
       THEN /\ pc' = "failed"
            /\ err' = "apply"
            /\ UNCHANGED <<mm, nloaded, nfiles, loaded, shadowed>>
       ELSE /\ mm' = Merge(mm, applyConfig(loaded, c))
            /\ shadowed' = (shadowed \/ Conflicts(mm, applyConfig(loaded, c)) # {})
            /\ nloaded' = nloaded + 1
            /\ nfiles' = 0
            /\ loaded' = <<>>
            /\ UNCHANGED <<pc, err>>
    /\ UNCHANGED <<fnVars, action, c, GOOS, conflicted, applied, taskVars, errored, errs>>

PackPath == CombinePath("pack")

UnpackPath == CombinePath("unpack")

\* Pack renders the pack of mms; Unpack saves every query of mms.
CombineDone ==
    /\ pc \in {"pack", "unpack"}
    /\ nloaded >= 1
    /\ nfiles = 0
    /\ pc' = "returned"
    /\ UNCHANGED <<fnVars, action, c, GOOS, err, loadVars, taskVars, errored, errs>>

\* ------------------------------------------------------------------ Verify

\* query.IsIncompatible: "" when m can run on the host.
IsIncompatible(m, goos) ==
    IF m.Platform # "" /\ m.Platform # goos
    THEN IF m.Platform = "posix"
         THEN IF goos # "linux" /\ goos # "darwin" THEN "posix" ELSE ""
         ELSE m.Platform
    ELSE ""

\* What one invocation of osqueryi can do: exit 0 with rows on stdout after
\* some seconds, or fail, with exit code 1 and "no such table:" on stderr
\* or in another way.
BackendResults ==
    {[ok |-> TRUE, noSuchTable |-> FALSE, Elapsed |-> e, Rows |-> r] :
        e \in 1..MaxElapsed, r \in {0, DefaultMaxResults + 1}}
    \cup
    {[ok |-> FALSE, noSuchTable |-> t, Elapsed |-> 1, Rows |-> 0] : t \in BOOLEAN}

\* A query.Run that leaves IncompatiblePlatform unset, so that a query of a
\* foreign platform is judged like any other.
Run_PlatformUnset(m, goos, br) ==
    LET incompatible == IsIncompatible(m, goos)
    IN  IF ~br.ok /\ ~(incompatible # "" /\ br.noSuchTable)
        THEN [err |-> TRUE, IncompatiblePlatform |-> "", Rows |-> 0, Elapsed |-> 0]
        ELSE [err |-> FALSE, IncompatiblePlatform |-> "",
              Rows |-> br.Rows, Elapsed |-> br.Elapsed]

\* query.Run, from the return of cmd.Output() on.
Run(m, goos, br) ==
    LET incompatible == IsIncompatible(m, goos)
    IN  IF ~br.ok /\ ~(incompatible # "" /\ br.noSuchTable)
        THEN [err |-> TRUE, IncompatiblePlatform |-> "", Rows |-> 0, Elapsed |-> 0]
        ELSE [err |-> FALSE, IncompatiblePlatform |-> incompatible,
              Rows |-> br.Rows, Elapsed |-> br.Elapsed]

\* dailyQueryDuration: panics on the integer division by an interval of 0.
dailyQueryDuration(interval, d) ==
    LET i == Atoi(interval)
    IN  IF ~i.ok
        THEN [err |-> TRUE, panic |-> FALSE, duration |-> 0, runs |-> 0]
        ELSE IF i.val = 0
        THEN [err |-> FALSE, panic |-> TRUE, duration |-> 0, runs |-> 0]
        ELSE [err |-> FALSE, panic |-> FALSE,
              duration |-> GoDiv(SecondsPerDay, i.val) * d,
              runs |-> GoDiv(SecondsPerDay, i.val)]

\* A task that adds to the shared sums only once the query is verified.
verifyTask_SumsWhenVerified(m, r, cfg) ==
    LET ended(how, counted, dqd) ==
            [outcome |-> how, panic |-> FALSE,
             duration |-> IF counted THEN dqd.duration ELSE 0,
             runs |-> IF counted THEN dqd.runs ELSE 0]
        dqd == dailyQueryDuration(m.Interval, r.Elapsed)
    IN  IF r.err THEN ended("errored", FALSE, dqd)
        ELSE IF r.IncompatiblePlatform # "" THEN ended("partial", FALSE, dqd)
        ELSE IF r.Elapsed > cfg.maxQueryDuration THEN ended("errored", FALSE, dqd)
        ELSE IF dqd.panic
             THEN [outcome |-> "", panic |-> TRUE, duration |-> 0, runs |-> 0]
        ELSE IF dqd.err THEN ended("errored", FALSE, dqd)
        ELSE IF dqd.duration > cfg.maxQueryDurationPerDay THEN ended("errored", FALSE, dqd)
        ELSE IF r.Rows > cfg.MaxResults THEN ended("errored", FALSE, dqd)
        ELSE ended("verified", TRUE, dqd)

\* A task without the check of the daily duration of its query.
verifyTask_NoDailyCheck(m, r, cfg) ==
    LET ended(how, counted, dqd) ==
            [outcome |-> how, panic |-> FALSE,
             duration |-> IF counted THEN dqd.duration ELSE 0,
             runs |-> IF counted THEN dqd.runs ELSE 0]
        dqd == dailyQueryDuration(m.Interval, r.Elapsed)
    IN  IF r.err THEN ended("errored", FALSE, dqd)
        ELSE IF r.IncompatiblePlatform # "" THEN ended("partial", FALSE, dqd)
        ELSE IF r.Elapsed > cfg.maxQueryDuration THEN ended("errored", FALSE, dqd)
        ELSE IF dqd.panic
             THEN [outcome |-> "", panic |-> TRUE, duration |-> 0, runs |-> 0]
        ELSE IF dqd.err THEN ended("errored", FALSE, dqd)
        ELSE IF r.Rows > cfg.MaxResults THEN ended("errored", TRUE, dqd)
        ELSE ended("verified", TRUE, dqd)

\* The function Verify hands to sg.Go, after query.Run returned r: how the
\* task ends, and what it adds to the shared sums before it does.
verifyTask(m, r, cfg) ==
    LET ended(how, counted, dqd) ==
            [outcome |-> how, panic |-> FALSE,
             duration |-> IF counted THEN dqd.duration ELSE 0,
             runs |-> IF counted THEN dqd.runs ELSE 0]
        dqd == dailyQueryDuration(m.Interval, r.Elapsed)
    IN  IF r.err THEN ended("errored", FALSE, dqd)
        ELSE IF r.IncompatiblePlatform # "" THEN ended("partial", FALSE, dqd)
        ELSE IF r.Elapsed > cfg.maxQueryDuration THEN ended("errored", FALSE, dqd)
        ELSE IF dqd.panic
             THEN [outcome |-> "", panic |-> TRUE, duration |-> 0, runs |-> 0]
        ELSE IF dqd.err THEN ended("errored", FALSE, dqd)
        ELSE IF dqd.duration > cfg.maxQueryDurationPerDay THEN ended("errored", TRUE, dqd)
        ELSE IF r.Rows > cfg.MaxResults THEN ended("errored", TRUE, dqd)
        ELSE ended("verified", TRUE, dqd)

\* sg.Go: Verify's loop hands the next query of mm to the semgroup, which
\* takes a permit (and blocks while all are taken) and starts the goroutine.
Go(name) ==
    /\ pc = "dispatch"
    /\ name \in DOMAIN mm
    /\ task[name] = "none"
    /\ sem < c.Workers
    /\ task' = [task EXCEPT ![name] = "started"]
    /\ sem' = sem + 1
    /\ UNCHANGED <<fnVars, action, c, GOOS, pc, err, loadVars, ran, vf, outcome,
                   backendCalls, verified, partial, totalQueryDuration, totalRuns,
                   sgErrs, errored, errs>>

\* The task calls query.Run, which starts osqueryi and waits for it.
TaskRun(name) ==
    /\ pc = "dispatch"
    /\ task[name] = "started"
    /\ task' = [task EXCEPT ![name] = "running"]
    /\ backendCalls' = [backendCalls EXCEPT ![name] = @ + 1]
    /\ UNCHANGED <<fnVars, action, c, GOOS, pc, err, loadVars, sem, ran, vf, outcome,
                   verified, partial, totalQueryDuration, totalRuns, sgErrs,
                   errored, errs>>

\* osqueryi returns and the task runs to its end: the budget checks, the
\* atomic additions, its error appended to the semgroup's, the permit
\* released.  A panic of the task ends the process.
TaskReturn(name) ==
    /\ pc = "dispatch"
    /\ task[name] = "running"
    /\ \E br \in BackendResults :
         LET r == Run(mm[name], GOOS, br)
             t == verifyTask(mm[name], r, c)
         IN  /\ ran' = [ran EXCEPT ![name] = br]
             /\ vf' = [vf EXCEPT ![name] = r]
             /\ IF t.panic
                THEN /\ pc' = "crashed"
                     /\ task' = [task EXCEPT ![name] = "panicked"]
                     /\ UNCHANGED <<sem, outcome, verified, partial,
                                    totalQueryDuration, totalRuns, sgErrs>>
                ELSE /\ pc' = pc
                     /\ task' = [task EXCEPT ![name] = "done"]
                     /\ sem' = sem - 1
                     /\ outcome' = [outcome EXCEPT ![name] = t.outcome]
                     /\ verified' = verified + (IF t.outcome = "verified" THEN 1 ELSE 0)
                     /\ partial' = partial + (IF t.outcome = "partial" THEN 1 ELSE 0)
                     /\ totalQueryDuration' = totalQueryDuration + t.duration
                     /\ totalRuns' = totalRuns + t.runs
                     /\ sgErrs' = IF t.outcome = "errored" THEN Append(sgErrs, name)
                                  ELSE sgErrs
    /\ UNCHANGED <<fnVars, action, c, GOOS, err, loadVars, backendCalls, errored, errs>>

\* sg.Wait returned: every goroutine handed to the semgroup has ended.
AllDone == \A name \in DOMAIN mm : task[name] = "done"

\* A Verify that drops what sg.Wait returned.
verifyErrs_WaitDropped(failed, nverified, total, cfg) ==
    <<"nil">>
    \o (IF nverified = 0 THEN <<"zero verified">> ELSE <<>>)
    \o (IF total > cfg.MaxTotalQueryDurationPerDay THEN <<"total duration">> ELSE <<>>)

\* A Verify without the check of the verified count.
verifyErrs_VerifiedUnchecked(failed, nverified, total, cfg) ==
    <<IF failed = <<>> THEN "nil" ELSE "tasks">>
    \o (IF total > cfg.MaxTotalQueryDurationPerDay THEN <<"total duration">> ELSE <<>>)

\* The errors Verify joins: what sg.Wait returned ("nil" when no task
\* failed), then the aggregate errors.
verifyErrs(failed, nverified, total, cfg) ==
    <<IF failed = <<>> THEN "nil" ELSE "tasks">>
    \o (IF nverified = 0 THEN <<"zero verified">> ELSE <<>>)
    \o (IF total > cfg.MaxTotalQueryDurationPerDay THEN <<"total duration">> ELSE <<>>)

\* errored := uint64(len(errs)), taken when errs holds what sg.Wait returned.
erroredCount(failed) == Len(<<IF failed = <<>> THEN "nil" ELSE "tasks">>)

\* errors.Join: nil when every error of the list is nil.
Join(list) == IF \A i \in 1..Len(list) : list[i] = "nil" THEN "" ELSE "verify"

\* Verify from sg.Wait() to its return.
VerifyWait ==
    /\ pc = "dispatch"
    /\ AllDone
    /\ errored' = erroredCount(sgErrs)
    /\ errs' = verifyErrs(sgErrs, verified, totalQueryDuration, c)
    /\ err' = Join(verifyErrs(sgErrs, verified, totalQueryDuration, c))
    /\ pc' = "returned"
    /\ UNCHANGED <<fnVars, action, c, GOOS, loadVars, taskVars>>

Next ==
    \/ ReadEntry
    \/ LoadPath
    \/ LoadApply
    \/ PackPath
    \/ UnpackPath
    \/ CombineDone
    \/ \E name \in QueryNames : Go(name)
    \/ \E name \in QueryNames : TaskRun(name)
    \/ \E name \in QueryNames : TaskReturn(name)
    \/ VerifyWait

Spec == Init /\ [][Next]_vars

\* ------------------------------------------- applyConfig called on its own

\* main is not running: a function of the program is called on its own.
MainIdle ==
    /\ action = ""
    /\ c = <<>>
    /\ GOOS = ""
    /\ pc = ""
    /\ err = ""
    /\ nloaded = 0
    /\ nfiles = 0
    /\ loaded = <<>>
    /\ mm = <<>>
    /\ shadowed = FALSE
    /\ conflicted = FALSE
    /\ applied = FALSE
    /\ task = <<>>
    /\ sem = 0
    /\ ran = <<>>
    /\ vf = <<>>
    /\ outcome = <<>>
    /\ backendCalls = <<>>
    /\ verified = 0
    /\ partial = 0
    /\ totalQueryDuration = 0
    /\ totalRuns = 0
    /\ sgErrs = <<>>
    /\ errored = 0
    /\ errs = <<>>

Often == <<"o", "f", "t", "e", "n">>

Rapid == <<"r", "a", "p", "i", "d">>

\* -tag-intervals=often=x/4,rapid=15s
ShortTagIntervals ==
    << Often \o <<"=", "x", "/", "4">>, Rapid \o <<"=", "1", "5", "s">> >>

\* The records applyConfig is handed under one name: with no interval of
\* their own, with one below, within and above the bounds, or with the
\* duration literal 6h; on no platform, linux or windows; untagged or
\* carrying one tag.
ResolveRecords(name) ==
    [Name : {name},
     Interval : {<<>>, <<"5">>, <<"3", "6", "0", "0">>,
                 <<"2", "0", "0", "0", "0", "0">>, <<"6", "h">>},
     Platform : {"", "linux", "windows"},
     Tags : {<<>>, <<Disabled>>, <<Often>>, <<Rapid>>}]

\* The maps applyConfig is handed: any of the names, each with one record.
ResolveStores ==
    UNION {[names -> UNION {ResolveRecords(n) : n \in names}] :
             names \in SUBSET QueryNames}

\* A map keyed by the name of its records, as the loaders build it.
KeyedByName(store) == \A n \in DOMAIN store : store[n].Name = n

\* The Configs applyConfig is handed: -exclude empty or dup, -platforms
\* empty or linux,posix, and the interval bounds 15s..24h, 20s..8h
\* (-min-interval=8h) and 24h..1h (the lower bound above the upper one).
ResolveConfigs ==
    {[MinInterval |-> b[1],
      MaxInterval |-> b[2],
      DefaultInterval |-> DefaultIntervalSeconds,
      TagIntervals |-> ShortTagIntervals,
      Exclude |-> ex,
      ExcludeTags |-> {Disabled},
      Platforms |-> pl] :
        b \in {<<15, 86400>>, <<DefaultMinInterval, 28800>>, <<86400, 3600>>},
        ex \in {{""}, {"dup"}},
        pl \in {{""}, {"linux", "posix"}}}

InitResolve ==
    /\ MainIdle
    /\ step = ""
    /\ arg \in [mm : {st \in ResolveStores : KeyedByName(st)}, c : ResolveConfigs]
    /\ res = <<>>

\* applyConfig(mm, c): its error, and the map it leaves.  When it fails the
\* callers drop the map.
ResolveCall ==
    /\ step = ""
    /\ step' = "applyConfig"
    /\ res' = [failed |-> applyConfigFails(arg.mm, arg.c),
               mm |-> IF applyConfigFails(arg.mm, arg.c) THEN <<>>
                      ELSE applyConfig(arg.mm, arg.c)]
    /\ UNCHANGED <<arg, mainVars>>

NextResolve == ResolveCall

SpecResolve == InitResolve /\ [][NextResolve]_vars

\* ------------------------------------- calculateInterval called on its own

\* Rules a tag-interval table holds at most.
MaxRules == 2

\* The modifiers of the tables tried, as the text the flag carries, with
\* what each says: set the interval to num, multiply it by num/den, divide
\* it by num/den, or nothing that calculateInterval understands.  The
\* factors are exact in float64.
Modifiers ==
    {[kind |-> "set", text |-> <<"2", "0">>, num |-> 20, den |-> 1],
     [kind |-> "set", text |-> <<"1", "5", "s">>, num |-> 15, den |-> 1],
     [kind |-> "set", text |-> <<"6", "m">>, num |-> 360, den |-> 1],
     [kind |-> "mul", text |-> <<"3", "x">>, num |-> 3, den |-> 1],
     [kind |-> "mul", text |-> <<"1", ".", "2", "5", "x">>, num |-> 5, den |-> 4],
     [kind |-> "div", text |-> <<"x", "/", "4">>, num |-> 4, den |-> 1],
     [kind |-> "div", text |-> <<"x", "/", "3">>, num |-> 3, den |-> 1],
     [kind |-> "none", text |-> <<"x">>, num |-> 1, den |-> 1]}

\* A rule of a table: a tag and a modifier.
Rules == [tag : {Often, Rapid}, mod : Modifiers]

\* The element of -tag-intervals that states the rule: tag=modifier.
RuleText(r) == r.tag \o <<"=">> \o r.mod.text

\* The tables of at most n rules.
RECURSIVE RuleTables(_)
RuleTables(n) ==
    IF n = 0 THEN {<<>>}
    ELSE RuleTables(n - 1)
         \cup {Append(t, r) : t \in {u \in RuleTables(n - 1) : Len(u) = n - 1},
                              r \in Rules}

\* -default-interval, in seconds.
DefaultIntervals == {DefaultIntervalSeconds, 7200, 100}

\* The tags of a record.
TagLists == {<<>>, <<Often>>, <<Rapid>>, <<Often, Rapid>>}

\* calculateInterval reads the tags of m, and the default interval and the
\* table of c; rules is the table as the rules it was written from.
InitInterval ==
    /\ MainIdle
    /\ step = ""
    /\ \E rules \in RuleTables(MaxRules), d \in DefaultIntervals, tags \in TagLists :
         arg = [m |-> [Tags |-> tags],
                c |-> [DefaultInterval |-> d,
                       TagIntervals |-> [i \in 1..Len(rules) |-> RuleText(rules[i])]],
                rules |-> rules]
    /\ res = <<>>

IntervalCall ==
    /\ step = ""
    /\ step' = "calculateInterval"
    /\ res' = calculateInterval(arg.m, arg.c)
    /\ UNCHANGED <<arg, mainVars>>

NextInterval == IntervalCall

SpecInterval == InitInterval /\ [][NextInterval]_vars

\* ------------------------------------------------------------------- Apply

\* main(): the interval bounds of the Config.  The flag named max-interval
\* (default 20s) is stored as MinInterval and the flag named min-interval
\* (default 24h) as MaxInterval.
IntervalFlagsConfig(maxIntervalFlag, minIntervalFlag) ==
    [MinInterval |-> maxIntervalFlag,
     MaxInterval |-> minIntervalFlag,
     DefaultInterval |-> DefaultIntervalSeconds,
     TagIntervals |-> DefaultTagIntervals,
     Exclude |-> {""},
     ExcludeTags |-> {Disabled},
     Platforms |-> {""}]

\* --min-interval=8h, in seconds.
EightHours == 28800

\* What json.Unmarshal leaves of a pack file: the queries, each with the
\* interval text of the file or none, and the platform of the pack.  Name
\* and Tags are not part of the JSON.
PackFiles ==
    {[Queries |-> qs, Platform |-> p] :
        qs \in UNION {[names -> [Name : {""},
                                 Interval : {<<>>, <<"3", "6", "0", "0">>,
                                             <<"8", "6", "4", "0", "0">>},
                                 Platform : {""},
                                 Tags : {<<>>}]] :
                        names \in SUBSET QueryNames},
        p \in {"", "linux"}}

\* The lists of at most n pack files, one file at least.
RECURSIVE PackLists(_)
PackLists(n) ==
    IF n = 1 THEN {<<p>> : p \in PackFiles}
    ELSE PackLists(n - 1)
         \cup {Append(l, p) : l \in {u \in PackLists(n - 1) : Len(u) = n - 1},
                              p \in PackFiles}

\* The repairs of a LoadPack that leaves the platform of every query as the
\* file has it.
LoadPackRepairs_PlatformKept(pack) ==
    [pack EXCEPT !.Queries =
        [name \in DOMAIN pack.Queries |-> [pack.Queries[name] EXCEPT !.Name = name]]]

\* LoadPack, its final repairs: every query gets its name, and the platform
\* of the pack when it has none of its own.
LoadPackRepairs(pack) ==
    [pack EXCEPT !.Queries =
        [name \in DOMAIN pack.Queries |->
            [pack.Queries[name] EXCEPT
                !.Name = name,
                !.Platform = IF pack.Platform # "" /\ @ = "" THEN pack.Platform
                             ELSE @]]]

\* FlattenPacks: c is a nil *Pack, so the first pass of the loop dereferences
\* nil and panics; with no pack at all it returns nil.
FlattenPacks(ps) ==
    IF ps = <<>> THEN [panic |-> FALSE, pack |-> <<>>]
    ELSE [panic |-> TRUE, pack |-> <<>>]

InitApply ==
    /\ MainIdle
    /\ step = ""
    /\ \E packs \in PackLists(MaxPaths), lo \in {DefaultMinInterval},
          hi \in {DefaultMaxInterval, EightHours} :
         arg = [packs |-> packs,
                minIntervalFlag |-> hi,
                c |-> IntervalFlagsConfig(lo, hi)]
    /\ res = <<>>

\* Apply(sourcePaths, output, c): LoadPack and applyConfig on every path,
\* then FlattenPacks and RenderPack.  ps is each pack as applyConfig left it.
Apply ==
    /\ step = ""
    /\ step' = "Apply"
    /\ LET n      == Len(arg.packs)
           repaired == [i \in 1..n |-> LoadPackRepairs(arg.packs[i])]
           failed == \E i \in 1..n : applyConfigFails(repaired[i].Queries, arg.c)
           ps     == [i \in 1..n |->
                        [repaired[i] EXCEPT !.Queries = applyConfig(@, arg.c)]]
       IN  res' = IF failed THEN [outcome |-> "error", ps |-> <<>>]
                  ELSE IF FlattenPacks(ps).panic THEN [outcome |-> "panic", ps |-> ps]
                  ELSE [outcome |-> "rendered", ps |-> ps]
    /\ UNCHANGED <<arg, mainVars>>

NextApply == Apply

SpecApply == InitApply /\ [][NextApply]_vars

\* ------------------------------------------------- strings of pkg/query

\* strings.Cut(s, sep) for the two-character separators "--" and "\n".
Cut2(s, a, b) ==
    IF \E i \in 1..(Len(s) - 1) : s[i] = a /\ s[i + 1] = b
    THEN LET i == CHOOSE k \in 1..(Len(s) - 1) :
                      /\ s[k] = a /\ s[k + 1] = b
                      /\ \A j \in 1..(k - 1) : ~(s[j] = a /\ s[j + 1] = b)
         IN  [before |-> SubSeq(s, 1, i - 1), after |-> SubSeq(s, i + 2, Len(s)),
              found |-> TRUE]
    ELSE [before |-> s, after |-> <<>>, found |-> FALSE]

\* strings.Count(s, ch) for a one-character ch.
Count(s, ch) == Cardinality({i \in 1..Len(s) : s[i] = ch})

\* unicode.IsSpace for the characters of the modelled sources.
IsSpace(ch) == ch \in {" ", "\t", "\n", "\r"}

\* strings.TrimSpace
RECURSIVE TrimSpace(_)
TrimSpace(s) ==
    IF s = <<>> THEN s
    ELSE IF IsSpace(s[1]) THEN TrimSpace(Tail(s))
    ELSE IF IsSpace(s[Len(s)]) THEN TrimSpace(SubSeq(s, 1, Len(s) - 1))
    ELSE s

\* strings.HasPrefix(s, prefix)
HasPrefix(s, prefix) ==
    Len(s) >= Len(prefix) /\ SubSeq(s, 1, Len(prefix)) = prefix

\* strings.HasSuffix(s, suffix)
HasSuffix(s, suffix) ==
    Len(s) >= Len(suffix) /\ SubSeq(s, Len(s) - Len(suffix) + 1, Len(s)) = suffix

\* strings.Split(s, sep) for a one-character sep: the pieces between the
\* separators, one piece for a string holding none.
RECURSIVE Split(_, _)
Split(s, sep) ==
    IF Cut(s, sep).found THEN <<Cut(s, sep).before>> \o Split(Cut(s, sep).after, sep)
    ELSE <<s>>

\* strings.Join(list, sep)
RECURSIVE JoinStrings(_, _)
JoinStrings(list, sep) ==
    IF list = <<>> THEN <<>>
    ELSE IF Len(list) = 1 THEN list[1]
    ELSE list[1] \o sep \o JoinStrings(Tail(list), sep)

\* ------------------------------------------------------------------- Parse

\* The names Parse is handed (Load: the base name of the file without
\* .sql), with the characters of each.
NameChars ==
    [dup |-> <<"d", "u", "p">>,
     other |-> <<"o", "t", "h", "e", "r">>,
     applinux |-> <<"a", "p", "p", "-", "l", "i", "n", "u", "x">>,
     appLinux |-> <<"a", "p", "p", "-", "L", "i", "n", "u", "x">>,
     appwin |-> <<"a", "p", "p", "-", "w", "i", "n">>,
     appWIN |-> <<"a", "p", "p", "-", "W", "I", "N">>,
     appmacos |-> <<"a", "p", "p", "-", "m", "a", "c", "o", "s">>,
     appunix |-> <<"a", "p", "p", "-", "u", "n", "i", "x">>,
     appdarwin |-> <<"a", "p", "p", "-", "d", "a", "r", "w", "i", "n">>]

ParseNames == DOMAIN NameChars

\* The directive names of Parse's switch.
DirectiveName ==
    [interval |-> <<"i", "n", "t", "e", "r", "v", "a", "l">>,
     platform |-> <<"p", "l", "a", "t", "f", "o", "r", "m">>,
     version |-> <<"v", "e", "r", "s", "i", "o", "n">>,
     tags |-> <<"t", "a", "g", "s">>,
     shard |-> <<"s", "h", "a", "r", "d">>,
     value |-> <<"v", "a", "l", "u", "e">>]

\* m := &Metadata{Name: name}: strings are empty, Tags is nil, Shard is 0.
NewMetadata(name) ==
    [Name |-> name, Query |-> <<>>, SingleLineQuery |-> <<>>, Interval |-> <<>>,
     Shard |-> 0, Platform |-> <<>>, Version |-> <<>>, Description |-> <<>>,
     ExtendedDescription |-> <<>>, Value |-> <<>>, Tags |-> <<>>]

\* Parse, the quote tests on a line cut at its first "--": the cut is no
\* comment when the double quotes, or the single quotes, are odd in number
\* on both sides of it.
lineHasComment(s) ==
    LET cut == Cut2(s, "-", "-")
        odd(t, q) == Count(t, q) % 2 = 1
    IN  /\ cut.found
        /\ ~(odd(cut.before, "\"") /\ odd(cut.after, "\""))
        /\ ~(odd(cut.before, "'") /\ odd(cut.after, "'"))

\* The pass of a Parse that takes its description from the first comment-only
\* line wherever it sits.
parseLine_DescriptionAnywhere(st, i, s) ==
    LET cut       == Cut2(s, "-", "-")
        after     == TrimSpace(cut.after)
        dcut      == Cut(after, ":")
        directive == dcut.before
        content   == IF dcut.found THEN TrimSpace(dcut.after) ELSE dcut.after
        m1        == IF i = 0 \/ st.m.Description = <<>>
                     THEN [st.m EXCEPT !.Description = TrimSpace(cut.after)]
                     ELSE st.m
    IN  IF ~lineHasComment(s) THEN [st EXCEPT !.out = Append(@, s)]
        ELSE IF ~HasPrefix(TrimSpace(s), <<"-", "-">>)
        THEN [st EXCEPT !.out = Append(@, cut.before)]
        ELSE IF directive = DirectiveName.interval
        THEN [st EXCEPT !.m = [m1 EXCEPT !.Interval = content]]
        ELSE IF directive = DirectiveName.platform
        THEN [st EXCEPT !.m = [m1 EXCEPT !.Platform = content]]
        ELSE IF directive = DirectiveName.version
        THEN [st EXCEPT !.m = [m1 EXCEPT !.Version = content]]
        ELSE IF directive = DirectiveName.tags
        THEN [st EXCEPT !.m = [m1 EXCEPT !.Tags = Split(content, " ")]]
        ELSE IF directive = DirectiveName.shard
        THEN IF Atoi(content).ok
             THEN [st EXCEPT !.m = [m1 EXCEPT !.Shard = Atoi(content).val]]
             ELSE [st EXCEPT !.m = m1, !.err = TRUE]
        ELSE IF directive = DirectiveName.value
        THEN [st EXCEPT !.m = [m1 EXCEPT !.Value = content]]
        ELSE [st EXCEPT !.m = m1]

\* Parse, one pass of its loop: line i (from 0) of the source, on the state
\* st of the loop: the Metadata m, the executable lines out, the error err.
parseLine(st, i, s) ==
    LET cut       == Cut2(s, "-", "-")
        after     == TrimSpace(cut.after)
        dcut      == Cut(after, ":")
        directive == dcut.before
        content   == IF dcut.found THEN TrimSpace(dcut.after) ELSE dcut.after
        m1        == IF i = 0 THEN [st.m EXCEPT !.Description = TrimSpace(cut.after)]
                     ELSE st.m
    IN  IF ~lineHasComment(s) THEN [st EXCEPT !.out = Append(@, s)]
        ELSE IF ~HasPrefix(TrimSpace(s), <<"-", "-">>)
        THEN [st EXCEPT !.out = Append(@, cut.before)]
        ELSE IF directive = DirectiveName.interval
        THEN [st EXCEPT !.m = [m1 EXCEPT !.Interval = content]]
        ELSE IF directive = DirectiveName.platform
        THEN [st EXCEPT !.m = [m1 EXCEPT !.Platform = content]]
        ELSE IF directive = DirectiveName.version
        THEN [st EXCEPT !.m = [m1 EXCEPT !.Version = content]]
        ELSE IF directive = DirectiveName.tags
        THEN [st EXCEPT !.m = [m1 EXCEPT !.Tags = Split(content, " ")]]
        ELSE IF directive = DirectiveName.shard
        THEN IF Atoi(content).ok
             THEN [st EXCEPT !.m = [m1 EXCEPT !.Shard = Atoi(content).val]]
             ELSE [st EXCEPT !.m = m1, !.err = TRUE]
        ELSE IF directive = DirectiveName.value
        THEN [st EXCEPT !.m = [m1 EXCEPT !.Value = content]]
        ELSE [st EXCEPT !.m = m1]

\* Parse, its loop over the lines from line i on; it returns at the first
\* error.
RECURSIVE parseLines(_, _, _)
parseLines(st, i, lines) ==
    IF lines = <<>> \/ st.err THEN st
    ELSE parseLines(parseLine(st, i, Head(lines)), i + 1, Tail(lines))

\* The guess of a Parse whose switch has no case for the suffix win.
platformOfName_WinUnmapped(name) ==
    LET n == NameChars[name]
    IN  IF HasSuffix(n, <<"l", "i", "n", "u", "x">>) THEN <<"l", "i", "n", "u", "x">>
        ELSE IF HasSuffix(n, <<"m", "a", "c", "o", "s">>) THEN <<"d", "a", "r", "w", "i", "n">>
        ELSE IF HasSuffix(n, <<"d", "a", "r", "w", "i", "n">>) THEN <<"d", "a", "r", "w", "i", "n">>
        ELSE IF HasSuffix(n, <<"p", "o", "s", "i", "x">>) THEN <<"p", "o", "s", "i", "x">>
        ELSE IF HasSuffix(n, <<"u", "n", "i", "x">>) THEN <<"p", "o", "s", "i", "x">>
        ELSE IF HasSuffix(n, <<"w", "i", "n", "d", "o", "w", "s">>) THEN <<"w", "i", "n", "d", "o", "w", "s">>
        ELSE <<>>

\* Parse, the platform guessed from the name: the first suffix of the
\* switch the name ends with, "" when it ends with none.
platformOfName(name) ==
    LET n == NameChars[name]
    IN  IF HasSuffix(n, <<"l", "i", "n", "u", "x">>) THEN <<"l", "i", "n", "u", "x">>
        ELSE IF HasSuffix(n, <<"m", "a", "c", "o", "s">>) THEN <<"d", "a", "r", "w", "i", "n">>
        ELSE IF HasSuffix(n, <<"d", "a", "r", "w", "i", "n">>) THEN <<"d", "a", "r", "w", "i", "n">>
        ELSE IF HasSuffix(n, <<"p", "o", "s", "i", "x">>) THEN <<"p", "o", "s", "i", "x">>
        ELSE IF HasSuffix(n, <<"u", "n", "i", "x">>) THEN <<"p", "o", "s", "i", "x">>
        ELSE IF HasSuffix(n, <<"w", "i", "n", "d", "o", "w", "s">>) THEN <<"w", "i", "n", "d", "o", "w", "s">>
        ELSE IF HasSuffix(n, <<"w", "i", "n">>) THEN <<"w", "i", "n", "d", "o", "w", "s">>
        ELSE <<>>

\* Parse(name, bs): err, or the Metadata m.
Parse(name, bs) ==
    LET st      == parseLines([m |-> NewMetadata(name), out |-> <<>>, err |-> FALSE],
                              0, Split(bs, "\n"))
        query   == TrimSpace(JoinStrings(st.out, <<"\n">>))
        single  == TrimSpace(JoinStrings([k \in 1..Len(st.out) |-> TrimSpace(st.out[k])],
                                         <<" ">>))
        closed  == HasSuffix(query, <<";">>)
        m2      == [st.m EXCEPT
                      !.Query = IF closed THEN query ELSE query \o <<";">>,
                      !.SingleLineQuery = IF closed THEN single ELSE single \o <<";">>]
    IN  IF st.err THEN [err |-> TRUE, m |-> NewMetadata(name)]
        ELSE IF m2.Platform # <<>> THEN [err |-> FALSE, m |-> m2]
        ELSE [err |-> FALSE, m |-> [m2 EXCEPT !.Platform = platformOfName(name)]]

\* ------------------------------------------------------------------ Render

\* Render(m): the lines of the file, joined by newlines, and a last newline.
Render(m) ==
    LET dashes(t) == <<"-", "-", " ">> \o t
        field(k, v) == <<"-", "-", " ">> \o k \o <<":", " ">> \o v
        ed == Split(m.ExtendedDescription, "\n")
        lines ==
            (IF m.Description # <<>> THEN <<dashes(m.Description)>> ELSE <<>>)
            \o << <<"-", "-">> >>
            \o (IF m.ExtendedDescription # <<>>
                THEN [k \in 1..Len(ed) |-> dashes(ed[k])] \o <<dashes(<<>>)>>
                ELSE <<>>)
            \o (IF m.Interval # <<>> THEN <<field(DirectiveName.interval, m.Interval)>>
                ELSE <<>>)
            \o (IF m.Platform # <<>> THEN <<field(DirectiveName.platform, m.Platform)>>
                ELSE <<>>)
            \o (IF m.Shard > 0 THEN <<field(DirectiveName.shard, Itoa(m.Shard))>>
                ELSE <<>>)
            \o (IF m.Value # <<>> THEN <<field(DirectiveName.value, m.Value)>> ELSE <<>>)
            \o (IF m.Version # <<>> THEN <<field(DirectiveName.version, m.Version)>>
                ELSE <<>>)
            \o << <<>> >>
            \o <<m.Query>>
    IN  JoinStrings(lines, <<"\n">>) \o <<"\n">>

\* ------------------------------------------ Parse and Render on their own

\* Lines a source holds at most.
MaxLines == 2

\* The lines of the sources tried:
\*   about       -- about
\*   interval6h  -- interval: 6h
\*   interval30  -- interval: 30
\*   platform    -- platform: posix
\*   tags        -- tags: often
\*   shard2      -- shard: 2
\*   shardMinus  -- shard: -1
\*   shardBare   -- shard
\*   platformBare -- platform
\*   select      select 1;
\*   trailing    select 1 -- c
\*   quoted      select '--x';
\*   mixed       select "a'", '--x';
\*   empty       
Line ==
    [about |-> <<"-", "-", " ", "a", "b", "o", "u", "t">>,
     interval6h |-> <<"-", "-", " ", "i", "n", "t", "e", "r", "v", "a", "l", ":", " ", "6", "h">>,
     interval30 |-> <<"-", "-", " ", "i", "n", "t", "e", "r", "v", "a", "l", ":", " ", "3", "0">>,
     platform |-> <<"-", "-", " ", "p", "l", "a", "t", "f", "o", "r", "m", ":", " ", "p", "o", "s", "i", "x">>,
     tags |-> <<"-", "-", " ", "t", "a", "g", "s", ":", " ", "o", "f", "t", "e", "n">>,
     shard2 |-> <<"-", "-", " ", "s", "h", "a", "r", "d", ":", " ", "2">>,
     shardMinus |-> <<"-", "-", " ", "s", "h", "a", "r", "d", ":", " ", "-", "1">>,
     shardBare |-> <<"-", "-", " ", "s", "h", "a", "r", "d">>,
     platformBare |-> <<"-", "-", " ", "p", "l", "a", "t", "f", "o", "r", "m">>,
     select |-> <<"s", "e", "l", "e", "c", "t", " ", "1", ";">>,
     trailing |-> <<"s", "e", "l", "e", "c", "t", " ", "1", " ", "-", "-", " ", "c">>,
     quoted |-> <<"s", "e", "l", "e", "c", "t", " ", "'", "-", "-", "x", "'", ";">>,
     mixed |-> <<"s", "e", "l", "e", "c", "t", " ", "\"", "a", "'", "\"", ",", " ", "'", "-", "-", "x", "'", ";">>,
     empty |-> <<>>]

SourceLines == {Line[k] : k \in DOMAIN Line}

\* The sources of at most n lines, one line at least, as their lines.
RECURSIVE SourcesOf(_)
SourcesOf(n) ==
    IF n = 1 THEN {<<l>> : l \in SourceLines}
    ELSE SourcesOf(n - 1)
         \cup {Append(src, l) : src \in {u \in SourcesOf(n - 1) : Len(u) = n - 1},
                                l \in SourceLines}

\* The platforms a record of the stores carries, by their characters.
PlatformOfChars(p) ==
    IF p = <<>> THEN ""
    ELSE IF p = <<"l", "i", "n", "u", "x">> THEN "linux"
    ELSE IF p = <<"d", "a", "r", "w", "i", "n">> THEN "darwin"
    ELSE IF p = <<"p", "o", "s", "i", "x">> THEN "posix"
    ELSE IF p = <<"w", "i", "n", "d", "o", "w", "s">> THEN "windows"
    ELSE "other"

\* The Metadata Parse returned as applyConfig reads it.
AsLoaded(m) ==
    [Name |-> m.Name, Interval |-> m.Interval,
     Platform |-> PlatformOfChars(m.Platform), Tags |-> m.Tags]

InitParse ==
    /\ MainIdle
    /\ step = ""
    /\ \E name \in ParseNames, lines \in SourcesOf(MaxLines) :
         arg = [name |-> name, lines |-> lines, bs |-> JoinStrings(lines, <<"\n">>)]
    /\ res = <<>>

\* Load: m, err := Parse(name, bs)
ParseCall ==
    /\ step = ""
    /\ step' = "Parse"
    /\ res' = [parsed |-> Parse(arg.name, arg.bs)]
    /\ UNCHANGED <<arg, mainVars>>

\* SaveToDirectory: s, err := Render(m), on the Metadata Parse returned.
RenderCall ==
    /\ step = "Parse"
    /\ ~res.parsed.err
    /\ step' = "Render"
    /\ res' = [parsed |-> res.parsed, text |-> Render(res.parsed.m)]
    /\ UNCHANGED <<arg, mainVars>>

\* Load of the file Render wrote, under the same name.
ReparseCall ==
    /\ step = "Render"
    /\ step' = "Reparse"
    /\ res' = [parsed |-> res.parsed, text |-> res.text,
               reparsed |-> Parse(arg.name, res.text)]
    /\ UNCHANGED <<arg, mainVars>>

\* Pack: applyConfig, under the default flags or with -platforms=linux, on
\* the map that holds the Metadata Parse returned.
ResolveParsed ==
    /\ step = "Parse"
    /\ ~res.parsed.err
    /\ step' = "applyConfig"
    /\ \E pl \in {{""}, {"linux"}} :
         LET cfg == [IntervalFlagsConfig(DefaultMinInterval, DefaultMaxInterval)
                        EXCEPT !.Platforms = pl]
         IN  res' = [parsed |-> res.parsed,
                     c |-> cfg,
                     failed |-> applyConfigFails(
                                    [n \in {arg.name} |-> AsLoaded(res.parsed.m)], cfg)]
    /\ UNCHANGED <<arg, mainVars>>

NextParse ==
    \/ ParseCall
    \/ RenderCall
    \/ ReparseCall
    \/ ResolveParsed

SpecParse == InitParse /\ [][NextParse]_vars

\* ---------------------------------------------------------------- LoadPack

\* The most members a query object of the pack files has.
MaxMembers == 3

\* The members a query object of a pack file is written with:
\*   query           "query":"select 1;"
\*   intervalNumber  "interval":3600
\*   intervalString  "interval":"3600"
\*   intervalSpaced  "interval" : 3600
\*   platform        "platform":"darwin"
\*   shard           "shard":2
\*   version         "version":"1.4"
Member ==
    [query |-> <<"\"", "q", "u", "e", "r", "y", "\"", ":", "\"", "s", "e", "l", "e", "c", "t", " ", "1", ";", "\"">>,
     intervalNumber |-> <<"\"", "i", "n", "t", "e", "r", "v", "a", "l", "\"", ":", "3", "6", "0", "0">>,
     intervalString |-> <<"\"", "i", "n", "t", "e", "r", "v", "a", "l", "\"", ":", "\"", "3", "6", "0", "0", "\"">>,
     intervalSpaced |-> <<"\"", "i", "n", "t", "e", "r", "v", "a", "l", "\"", " ", ":", " ", "3", "6", "0", "0">>,
     platform |-> <<"\"", "p", "l", "a", "t", "f", "o", "r", "m", "\"", ":", "\"", "d", "a", "r", "w", "i", "n", "\"">>,
     shard |-> <<"\"", "s", "h", "a", "r", "d", "\"", ":", "2">>,
     version |-> <<"\"", "v", "e", "r", "s", "i", "o", "n", "\"", ":", "\"", "1", ".", "4", "\"">>]

\* The key each member is written under.
MemberKey ==
    [query |-> "query", intervalNumber |-> "interval", intervalString |-> "interval", intervalSpaced |-> "interval", platform |-> "platform", shard |-> "shard",
     version |-> "version"]

\* The query objects of at most n members, one member at least, no key
\* twice, as the list of their members in the order of the file.
MemberLists(n) ==
    {l \in UNION {[1..k -> DOMAIN Member] : k \in 1..n} :
        \A i, j \in 1..Len(l) : i # j => MemberKey[l[i]] # MemberKey[l[j]]}

\* The bytes of a query object in the file.
ObjectText(l) ==
    <<"{">> \o JoinStrings([k \in 1..Len(l) |-> Member[l[k]]], <<",">>) \o <<"}">>

\* s without its first n characters.
Drop(s, n) == SubSeq(s, n + 1, Len(s))

\* The count of white space characters s starts with (\s* of the regexp, the
\* white space json skips).
RECURSIVE SpaceSpan(_)
SpaceSpan(s) ==
    IF s # <<>> /\ IsSpace(Head(s)) THEN 1 + SpaceSpan(Tail(s)) ELSE 0

\* The count of digits s starts with (\d+ of the regexp, a json number).
RECURSIVE DigitSpan(_)
DigitSpan(s) ==
    IF s # <<>> /\ IsDigit(Head(s)) THEN 1 + DigitSpan(Tail(s)) ELSE 0

\* LoadPack: bs = bytes.ReplaceAll(bs, "\\\n", "\\\\n")
RECURSIVE escapeTrailingBackslash(_)
escapeTrailingBackslash(bs) ==
    IF bs = <<>> THEN <<>>
    ELSE IF Len(bs) >= 2 /\ bs[1] = "\\" /\ bs[2] = "\n"
    THEN <<"\\", "\\", "n">> \o escapeTrailingBackslash(Drop(bs, 2))
    ELSE <<Head(bs)>> \o escapeTrailingBackslash(Tail(bs))

\* "interval" with its quotes, as the regexp and its replacement write it.
IntervalKey == <<"\"", "i", "n", "t", "e", "r", "v", "a", "l", "\"">>

\* nakedInterval, `"interval"\s*:\s*(\d+),`, matched at the start of s: the
\* digits of its group and the length of the match.
nakedInterval(s) ==
    LET r1 == Drop(s, Len(IntervalKey))
        r2 == Drop(r1, SpaceSpan(r1))
        r3 == Drop(Tail(r2), SpaceSpan(Tail(r2)))
        d  == DigitSpan(r3)
        r4 == Drop(r3, d)
    IN  IF /\ HasPrefix(s, IntervalKey)
           /\ r2 # <<>> /\ Head(r2) = ":"
           /\ d > 0
           /\ r4 # <<>> /\ Head(r4) = ","
        THEN [ok |-> TRUE, digits |-> SubSeq(r3, 1, d), len |-> Len(s) - Len(r4) + 1]
        ELSE [ok |-> FALSE, digits |-> <<>>, len |-> 0]

\* LoadPack: bs = nakedInterval.ReplaceAll(bs, "\"interval\": \"$1\",")
RECURSIVE nakedIntervalReplaceAll(_)
nakedIntervalReplaceAll(bs) ==
    IF bs = <<>> THEN <<>>
    ELSE IF nakedInterval(bs).ok
    THEN IntervalKey \o <<":", " ", "\"">> \o nakedInterval(bs).digits \o <<"\"", ",">>
         \o nakedIntervalReplaceAll(Drop(bs, nakedInterval(bs).len))
    ELSE <<Head(bs)>> \o nakedIntervalReplaceAll(Tail(bs))

\* encoding/json, a value at the start of s: a string (without escapes) or a
\* number of digits, and what follows it.
jsonValue(s) ==
    IF s # <<>> /\ Head(s) = "\""
    THEN [ok |-> Cut(Tail(s), "\"").found, kind |-> "string",
          text |-> Cut(Tail(s), "\"").before, rest |-> Cut(Tail(s), "\"").after]
    ELSE [ok |-> DigitSpan(s) > 0, kind |-> "number",
          text |-> SubSeq(s, 1, DigitSpan(s)), rest |-> Drop(s, DigitSpan(s))]

\* The keys of Metadata's json tags that the pack files use.
JSONKey ==
    [query |-> <<"q", "u", "e", "r", "y">>,
     interval |-> <<"i", "n", "t", "e", "r", "v", "a", "l">>,
     platform |-> <<"p", "l", "a", "t", "f", "o", "r", "m">>,
     shard |-> <<"s", "h", "a", "r", "d">>,
     version |-> <<"v", "e", "r", "s", "i", "o", "n">>]

\* encoding/json, a member decoded into the Metadata m: Query, Interval,
\* Platform and Version are strings and Shard an int, a value of the other kind is an
\* UnmarshalTypeError; a key Metadata has no tag for is skipped.
setField(m, key, v) ==
    IF key = JSONKey.query
    THEN [err |-> v.kind # "string", m |-> [m EXCEPT !.Query = v.text]]
    ELSE IF key = JSONKey.interval
    THEN [err |-> v.kind # "string", m |-> [m EXCEPT !.Interval = v.text]]
    ELSE IF key = JSONKey.platform
    THEN [err |-> v.kind # "string", m |-> [m EXCEPT !.Platform = PlatformOfChars(v.text)]]
    ELSE IF key = JSONKey.shard
    THEN [err |-> v.kind # "number",
          m |-> [m EXCEPT !.Shard = IF v.kind = "number" THEN DigitsVal(v.text) ELSE 0]]
    ELSE IF key = JSONKey.version
    THEN [err |-> v.kind # "string", m |-> [m EXCEPT !.Version = v.text]]
    ELSE [err |-> FALSE, m |-> m]

\* encoding/json, the members of an object from s on, s being what follows
\* its "{" or a ",".
RECURSIVE decodeMembers(_, _)
decodeMembers(s, m) ==
    LET s1 == Drop(s, SpaceSpan(s))
        k  == jsonValue(s1)
        s2 == Drop(k.rest, SpaceSpan(k.rest))
        s3 == Drop(Tail(s2), SpaceSpan(Tail(s2)))
        v  == jsonValue(s3)
        s4 == Drop(v.rest, SpaceSpan(v.rest))
        f  == setField(m, k.text, v)
    IN  IF ~k.ok \/ k.kind # "string" \/ s2 = <<>> THEN [err |-> TRUE, m |-> m]
        ELSE IF Head(s2) # ":" \/ ~v.ok \/ s4 = <<>> THEN [err |-> TRUE, m |-> m]
        ELSE IF f.err THEN [err |-> TRUE, m |-> m]
        ELSE IF Head(s4) = "," THEN decodeMembers(Tail(s4), f.m)
        ELSE IF Head(s4) = "}" /\ SpaceSpan(Tail(s4)) = Len(Tail(s4))
        THEN [err |-> FALSE, m |-> f.m]
        ELSE [err |-> TRUE, m |-> m]

\* json.Unmarshal of a query object into a new Metadata.
Unmarshal(bs) ==
    LET s == Drop(bs, SpaceSpan(bs))
        m == [Name |-> "", Query |-> <<>>, Interval |-> <<>>, Shard |-> 0,
              Platform |-> "", Version |-> <<>>, Tags |-> <<>>]
    IN  IF s = <<>> \/ Head(s) # "{" THEN [err |-> TRUE, m |-> m]
        ELSE decodeMembers(Tail(s), m)

\* LoadPack(path) on a pack file with the top-level platform, version and
\* shard given in top and one query, named dup, whose object has the bytes
\* given: the two rewrites of the bytes, json.Unmarshal and the final
\* repairs.  The rest of the file holds no interval, so the rewrites leave
\* it as it is.
LoadPack(top, object) ==
    LET bs == nakedIntervalReplaceAll(escapeTrailingBackslash(object))
        d  == Unmarshal(bs)
    IN  IF d.err THEN [err |-> TRUE, pack |-> <<>>]
        ELSE [err |-> FALSE,
              pack |-> LoadPackRepairs([Queries |-> [n \in {"dup"} |-> d.m],
                                        Platform |-> top.Platform,
                                        Version |-> top.Version,
                                        Shard |-> top.Shard])]

\* The top-level platform, version and shard of the pack files: each is
\* written in the file or left out (omitempty: "", "", 0).
PackDefaults ==
    [Platform : {"", "linux"}, Version : {<<>>, <<"5", ".", "0">>}, Shard : {0, 50}]

InitLoadPack ==
    /\ MainIdle
    /\ step = ""
    /\ \E l \in MemberLists(MaxMembers), top \in PackDefaults :
         arg = [members |-> l, platform |-> top.Platform, top |-> top,
                object |-> ObjectText(l)]
    /\ res = <<>>

\* pack, err := LoadPack(path)
LoadPackCall ==
    /\ step = ""
    /\ step' = "LoadPack"
    /\ res' = LoadPack(arg.top, arg.object)
    /\ UNCHANGED <<arg, mainVars>>

NextLoadPack == LoadPackCall

SpecLoadPack == InitLoadPack /\ [][NextLoadPack]_vars

\* ------------------------------------------------- main, command by command

\* main.go:91-93: a -workers flag below 1 becomes runtime.NumCPU().
workers(flag, numCPU) == IF flag < 1 THEN numCPU ELSE flag

\* The commands of main's switch tried: verify, run, and pack for the
\* commands that run no query.
MainActions == {"verify", "run", "pack"}

\* What the source paths hold, as loaded: dup on every platform with the
\* interval 0 or 7200, other with the interval 7200 on every platform or
\* on windows.
MainStores ==
    {[n \in QueryNames |->
        [Name |-> n,
         Interval |-> IF n = "dup" THEN i ELSE <<"7", "2", "0", "0">>,
         Platform |-> IF n = "dup" THEN "" ELSE p,
         Tags |-> <<>>]] :
      i \in IntervalTexts, p \in {"", "windows"}}

\* What one invocation of osqueryi can do: exit 0 after 1 second or after
\* MaxElapsed, with a JSON array of no row on stdout; exit 0 with a stdout
\* that json.Unmarshal rejects, which leaves rows empty; or fail, with exit
\* code 1 and "no such table:" on stderr or in another way.
Outputs ==
    {[ok |-> TRUE, noSuchTable |-> FALSE, Elapsed |-> e, Rows |-> 0, decoded |-> TRUE] :
        e \in {1, MaxElapsed}}
    \cup
    {[ok |-> TRUE, noSuchTable |-> FALSE, Elapsed |-> 1, Rows |-> 0, decoded |-> FALSE]}
    \cup
    {[ok |-> FALSE, noSuchTable |-> t, Elapsed |-> 1, Rows |-> 0, decoded |-> FALSE] :
        t \in BOOLEAN}

\* The order of the names: sort.Slice by qs[i].Name < qs[j].Name.
NameRank == [dup |-> 1, other |-> 2]

\* sort.Slice(qs, ...): the names of S in ascending order.
SortedByName(S) ==
    CHOOSE seq \in [1..Cardinality(S) -> S] :
        \A i, j \in 1..Cardinality(S) : i < j => NameRank[seq[i]] < NameRank[seq[j]]

\* A semgroup that hands out a permit whatever the number taken.
permitFree_Always(taken, cfg) == TRUE

\* semaphore.Acquire of the semgroup: a permit is free while fewer than
\* c.Workers are taken.
permitFree(taken, cfg) == taken < cfg.Workers

\* An addition that stores what it was to add.
AtomicAdd_Stored(shared, delta) == delta

\* atomic.AddInt64 / atomic.AddUint64: the new value of the shared variable.
AtomicAdd(shared, delta) == shared + delta

\* The function Verify hands to sg.Go gets as far as its additions to the
\* shared sums: query.Run returned no error, the platform is the host's,
\* the run was within -max-query-duration, and dailyQueryDuration returned.
reachesSums(m, r, cfg) ==
    /\ ~r.err
    /\ r.IncompatiblePlatform = ""
    /\ r.Elapsed <= cfg.maxQueryDuration
    /\ ~dailyQueryDuration(m.Interval, r.Elapsed).err
    /\ ~dailyQueryDuration(m.Interval, r.Elapsed).panic

InitMain ==
    /\ action \in MainActions
    /\ GOOS = "linux"
    /\ step = ""
    /\ \E v \in BOOLEAN, w \in (-1)..MaxWorkers, n \in {1, MaxWorkers}, st \in MainStores :
         arg = [verifyFlag |-> v, workersFlag |-> w, numCPU |-> n, store |-> st]
    /\ c \in {x \in Configs : x.Workers = workers(arg.workersFlag, arg.numCPU)}
    /\ pc = "main"
    /\ nloaded = 0
    /\ nfiles = 0
    /\ loaded = <<>>
    /\ mm = <<>>
    /\ err = ""
    /\ shadowed = FALSE
    /\ conflicted = FALSE
    /\ applied = FALSE
    /\ task = [name \in QueryNames |-> "none"]
    /\ sem = 0
    /\ ran = [name \in QueryNames |-> NotRun]
    /\ vf = [name \in QueryNames |-> NoResult]
    /\ outcome = [name \in QueryNames |-> ""]
    /\ backendCalls = [name \in QueryNames |-> 0]
    /\ verified = 0
    /\ partial = 0
    /\ totalQueryDuration = 0
    /\ totalRuns = 0
    /\ sgErrs = <<>>
    /\ errored = 0
    /\ errs = <<>>
    /\ res = <<>>

\* main.go:98-107 and the case "verify" of the switch: Verify is called,
\* loads the paths, and creates its counters and the semgroup.  The paths
\* hold no conflict and no interval applyConfig rejects.
VerifyCall ==
    /\ \/ pc = "main" /\ (arg.verifyFlag \/ action = "verify")
       \/ pc = "switch" /\ action = "verify"
    /\ step' = IF pc = "main" THEN "flag" ELSE "switch"
    /\ pc' = "dispatch"
    /\ mm' = applyConfig(arg.store, c)
    /\ applied' = TRUE
    /\ task' = [name \in QueryNames |-> "none"]
    /\ sem' = 0
    /\ ran' = [name \in QueryNames |-> NotRun]
    /\ vf' = [name \in QueryNames |-> NoResult]
    /\ outcome' = [name \in QueryNames |-> ""]
    /\ verified' = 0
    /\ partial' = 0
    /\ totalQueryDuration' = 0
    /\ totalRuns' = 0
    /\ sgErrs' = <<>>
    /\ errored' = 0
    /\ errs' = <<>>
    /\ UNCHANGED <<action, c, GOOS, err, nloaded, nfiles, loaded, shadowed, conflicted,
                   backendCalls, arg, res>>

\* main.go:98: neither --verify nor the verify command.
SkipVerify ==
    /\ pc = "main"
    /\ ~(arg.verifyFlag \/ action = "verify")
    /\ pc' = "switch"
    /\ UNCHANGED <<action, c, GOOS, err, loadVars, taskVars, errored, errs, fnVars>>

\* sg.Go: the loop of Verify takes a permit, waiting while none is free,
\* and starts the goroutine of the next query of mm, in the order the map
\* gives.
SgGo(name) ==
    /\ pc = "dispatch"
    /\ name \in DOMAIN mm
    /\ task[name] = "none"
    /\ permitFree(sem, c)
    /\ task' = [task EXCEPT ![name] = "started"]
    /\ sem' = sem + 1
    /\ UNCHANGED <<action, c, GOOS, pc, err, loadVars, ran, vf, outcome, backendCalls,
                   verified, partial, totalQueryDuration, totalRuns, sgErrs,
                   errored, errs, fnVars>>

\* The task calls query.Run, which starts osqueryi and waits for it in
\* cmd.Output(), without a timeout.
RunStart(name) ==
    /\ pc = "dispatch"
    /\ task[name] = "started"
    /\ task' = [task EXCEPT ![name] = "running"]
    /\ backendCalls' = [backendCalls EXCEPT ![name] = @ + 1]
    /\ UNCHANGED <<action, c, GOOS, pc, err, loadVars, sem, ran, vf, outcome,
                   verified, partial, totalQueryDuration, totalRuns, sgErrs,
                   errored, errs, fnVars>>

\* osqueryi ends and query.Run returns to the task.
RunReturn(name) ==
    /\ pc = "dispatch"
    /\ task[name] = "running"
    /\ \E br \in Outputs :
         /\ ran' = [ran EXCEPT ![name] = br]
         /\ vf' = [vf EXCEPT ![name] = Run(mm[name], GOOS, br)]
    /\ task' = [task EXCEPT ![name] = "returned"]
    /\ UNCHANGED <<action, c, GOOS, pc, err, loadVars, sem, outcome, backendCalls,
                   verified, partial, totalQueryDuration, totalRuns, sgErrs,
                   errored, errs, fnVars>>

\* dailyQueryDuration divides by an interval of 0: the goroutine panics and
\* the process ends.
TaskPanic(name) ==
    /\ pc = "dispatch"
    /\ task[name] = "returned"
    /\ verifyTask(mm[name], vf[name], c).panic
    /\ task' = [task EXCEPT ![name] = "panicked"]
    /\ pc' = "crashed"
    /\ UNCHANGED <<action, c, GOOS, err, loadVars, sem, ran, vf, outcome, backendCalls,
                   verified, partial, totalQueryDuration, totalRuns, sgErrs,
                   errored, errs, fnVars>>

\* atomic.AddInt64((*int64)(&totalQueryDuration), int64(queryDurationPerDay))
AddDuration(name) ==
    /\ pc = "dispatch"
    /\ task[name] = "returned"
    /\ reachesSums(mm[name], vf[name], c)
    /\ totalQueryDuration' =
         AtomicAdd(totalQueryDuration, verifyTask(mm[name], vf[name], c).duration)
    /\ task' = [task EXCEPT ![name] = "addedDuration"]
    /\ UNCHANGED <<action, c, GOOS, pc, err, loadVars, sem, ran, vf, outcome,
                   backendCalls, verified, partial, totalRuns, sgErrs, errored,
                   errs, fnVars>>

\* atomic.AddInt64((&totalRuns), int64(runsPerDay))
AddRuns(name) ==
    /\ pc = "dispatch"
    /\ task[name] = "addedDuration"
    /\ totalRuns' = AtomicAdd(totalRuns, verifyTask(mm[name], vf[name], c).runs)
    /\ task' = [task EXCEPT ![name] = "addedRuns"]
    /\ UNCHANGED <<action, c, GOOS, pc, err, loadVars, sem, ran, vf, outcome,
                   backendCalls, verified, partial, totalQueryDuration, sgErrs,
                   errored, errs, fnVars>>

\* The function of the task returns: with an error, or after
\* atomic.AddUint64(&partial, 1), or after atomic.AddUint64(&verified, 1).
TaskResult(name) ==
    /\ pc = "dispatch"
    /\ \/ task[name] = "addedRuns"
       \/ /\ task[name] = "returned"
          /\ ~verifyTask(mm[name], vf[name], c).panic
          /\ ~reachesSums(mm[name], vf[name], c)
    /\ LET how == verifyTask(mm[name], vf[name], c).outcome
       IN  /\ outcome' = [outcome EXCEPT ![name] = how]
           /\ verified' = IF how = "verified" THEN AtomicAdd(verified, 1) ELSE verified
           /\ partial' = IF how = "partial" THEN AtomicAdd(partial, 1) ELSE partial
    /\ task' = [task EXCEPT ![name] = "resulted"]
    /\ UNCHANGED <<action, c, GOOS, pc, err, loadVars, sem, ran, vf, backendCalls,
                   totalQueryDuration, totalRuns, sgErrs, errored, errs, fnVars>>

\* The goroutine of the semgroup ends: it appends the error of the task to
\* the errors of the group, under its mutex, and releases its permit.
TaskExit(name) ==
    /\ pc = "dispatch"
    /\ task[name] = "resulted"
    /\ sgErrs' = IF outcome[name] = "errored" THEN Append(sgErrs, name) ELSE sgErrs
    /\ sem' = sem - 1
    /\ task' = [task EXCEPT ![name] = "done"]
    /\ UNCHANGED <<action, c, GOOS, pc, err, loadVars, ran, vf, outcome, backendCalls,
                   verified, partial, totalQueryDuration, totalRuns, errored,
                   errs, fnVars>>

\* Verify from the return of sg.Wait() to its own, and main after it:
\* klog.Exitf on an error, the switch after the call under --verify, the
\* end of main after the call of the switch.
SgWait ==
    /\ pc = "dispatch"
    /\ AllDone
    /\ errored' = erroredCount(sgErrs)
    /\ errs' = verifyErrs(sgErrs, verified, totalQueryDuration, c)
    /\ err' = Join(verifyErrs(sgErrs, verified, totalQueryDuration, c))
    /\ pc' = IF Join(verifyErrs(sgErrs, verified, totalQueryDuration, c)) # ""
             THEN "exited"
             ELSE IF step = "flag" THEN "switch" ELSE "returned"
    /\ UNCHANGED <<action, c, GOOS, loadVars, taskVars, fnVars>>

\* The lines Run prints for the queries qs, in their order, given what
\* osqueryi does for each: no line for a query of a foreign platform or a
\* failed run, the header with the name otherwise.
RECURSIVE runLines(_, _, _)
runLines(qs, store, brs) ==
    IF qs = <<>> THEN <<>>
    ELSE (IF IsIncompatible(store[Head(qs)], GOOS) # "" THEN <<>>
          ELSE IF Run(store[Head(qs)], GOOS, brs[Head(qs)]).err THEN <<>>
          ELSE <<Head(qs)>>)
         \o runLines(Tail(qs), store, brs)

\* The queries of the active set Run starts osqueryi for: query.Run is
\* called for every one, and starts the backend when the platform fits.
runCalled(active) ==
    {name \in DOMAIN active : IsIncompatible(active[name], GOOS) = ""}

\* The queries whose query.Run returns an error.
runFailed(active, brs) ==
    {name \in runCalled(active) : Run(active[name], GOOS, brs[name]).err}

\* Run over the loaded queries: they are sorted by name and run one after
\* another, the result of each printed.
RunOver(active, brs) ==
    /\ mm' = active
    /\ backendCalls' = [name \in QueryNames |->
                          backendCalls[name] + (IF name \in runCalled(active) THEN 1 ELSE 0)]
    /\ res' = [lines |-> runLines(SortedByName(DOMAIN active), active, brs)]
    /\ err' = IF runFailed(active, brs) = {} THEN "" ELSE "run"
    /\ pc' = IF err' = "" THEN "returned" ELSE "exited"

\* case "run": Run(paths, output, c) loads the paths and runs the queries.
RunCall ==
    /\ pc = "switch"
    /\ action = "run"
    /\ \E brs \in [QueryNames -> Outputs] : RunOver(applyConfig(arg.store, c), brs)
    /\ step' = "run"
    /\ applied' = TRUE
    /\ UNCHANGED <<action, c, GOOS, nloaded, nfiles, loaded, shadowed, conflicted,
                   task, sem, ran, vf, outcome, verified, partial,
                   totalQueryDuration, totalRuns, sgErrs, errored, errs, arg>>

\* The other commands of the switch run no query.
OtherCommand ==
    /\ pc = "switch"
    /\ action = "pack"
    /\ pc' = "returned"
    /\ UNCHANGED <<action, c, GOOS, err, loadVars, taskVars, errored, errs, fnVars>>

NextMain ==
    \/ VerifyCall
    \/ SkipVerify
    \/ \E name \in QueryNames : SgGo(name)
    \/ \E name \in QueryNames : RunStart(name)
    \/ \E name \in QueryNames : RunReturn(name)
    \/ \E name \in QueryNames : TaskPanic(name)
    \/ \E name \in QueryNames : AddDuration(name)
    \/ \E name \in QueryNames : AddRuns(name)
    \/ \E name \in QueryNames : TaskResult(name)
    \/ \E name \in QueryNames : TaskExit(name)
    \/ SgWait
    \/ RunCall
    \/ OtherCommand

SpecMain == InitMain /\ [][NextMain]_vars

\* Every step of the program that is enabled is taken in the end: the
\* scheduler runs every goroutine, and osqueryi ends.
SpecMainFair == SpecMain /\ WF_vars(NextMain)

\* ------------------------------------------------------------- properties

\* The queries Verify was handed: the active set loadAndApply returned.
Admitted == IF action = "verify" /\ pc \in {"dispatch", "returned", "crashed"}
            THEN DOMAIN mm ELSE {}

VerifyReturned == action = "verify" /\ pc = "returned"

\* The declared platform is set and the host cannot run it.
HostIncompatible(name) ==
    /\ mm[name].Platform # ""
    /\ mm[name].Platform # GOOS
    /\ mm[name].Platform = "posix" => GOOS \notin {"linux", "darwin"}

\* The backend failed in the one way query.Run forgives on a foreign platform.
OnlyNoSuchTable(name) == ~ran[name].ok /\ ran[name].noSuchTable

Ended(how) == {name \in Admitted : task[name] = "done" /\ outcome[name] = how}

RECURSIVE SumOver(_, _)
SumOver(S, f) ==
    IF S = {} THEN 0
    ELSE LET x == CHOOSE y \in S : TRUE IN f[x] + SumOver(S \ {x}, f)

PositiveInterval(name) ==
    Atoi(mm[name].Interval).ok /\ Atoi(mm[name].Interval).val > 0

\* runsPerDay x elapsed of a query whose interval is a positive integer.
DailyDuration(name) ==
    IF PositiveInterval(name)
    THEN (SecondsPerDay \div Atoi(mm[name].Interval).val) * ran[name].Elapsed
    ELSE 0

\* The queries osqueryi executed to the end.
Executed == {name \in Admitted : task[name] = "done" /\ ran[name].ok}

\* The executed queries whose task went on to dailyQueryDuration: the host
\* can run their platform and the run took no longer than one run may.
Costed ==
    {name \in Executed :
        ~HostIncompatible(name) /\ ran[name].Elapsed <= c.maxQueryDuration}

HasError(text) == \E i \in 1..Len(errs) : errs[i] = text

\* C1, as claimed: a query whose declared platform the host cannot run is
\* never handed to the backend, and its task ends Partial.
C1_IncompatibleNeverRun ==
    \A name \in Admitted :
        HostIncompatible(name) =>
            /\ backendCalls[name] = 0
            /\ task[name] = "done" => outcome[name] = "partial"

\* C1, amended: a query whose declared platform the host cannot run is
\* handed to the backend once like any other; its task ends Partial when
\* the backend succeeds or fails with exit code 1 and "no such table:", and
\* Errored on any other failure of the backend.  It never ends Verified.
C1_IncompatibleRunOncePartial ==
    \A name \in Admitted :
        HostIncompatible(name) =>
            /\ task[name] \in {"running", "done"} => backendCalls[name] = 1
            /\ task[name] = "done" =>
                 /\ backendCalls[name] = 1
                 /\ outcome[name] =
                      IF ran[name].ok \/ OnlyNoSuchTable(name) THEN "partial"
                      ELSE "errored"

\* C1 witness: a posix query on a windows host was run by the backend and
\* ended Partial.
C1_Witness ==
    \E name \in Admitted :
        /\ mm[name].Platform = "posix"
        /\ GOOS = "windows"
        /\ backendCalls[name] = 1
        /\ ran[name].ok
        /\ outcome[name] = "partial"

\* C2: when the Verify run is over, by its return or by the end of the
\* process, every admitted query's task was dispatched and has finished,
\* whatever happened to the task of another query.
C2_RunToCompletion ==
    (action = "verify" /\ pc \in {"returned", "crashed"}) =>
        \A name \in Admitted : task[name] \in {"done", "panicked"}

\* C3, as claimed: Verify returns an error only when no query was verified
\* or the total daily duration is over its ceiling.
C3_FailsOnAggregateOnly ==
    (VerifyReturned /\ err # "") =>
        \/ Ended("verified") = {}
        \/ totalQueryDuration > c.MaxTotalQueryDurationPerDay

\* C3, amended: Verify returns an error exactly when some query ended
\* Errored, or no query was verified, or the total daily duration is over
\* its ceiling.
C3_FailsOnAnyError ==
    VerifyReturned =>
        (err # "" <=>
            \/ Ended("errored") # {}
            \/ Ended("verified") = {}
            \/ totalQueryDuration > c.MaxTotalQueryDurationPerDay)

\* C3 witness: one query Errored, another Verified, the total within its
\* ceiling, and Verify returned an error.
C3_Witness ==
    /\ VerifyReturned
    /\ Ended("errored") # {}
    /\ Ended("verified") # {}
    /\ totalQueryDuration <= c.MaxTotalQueryDurationPerDay
    /\ err # ""

\* C4: when no query ended Verified, Verify returns an error that carries
\* the aggregate "0 queries were fully verified".
C4_ZeroVerifiedFails ==
    (VerifyReturned /\ Ended("verified") = {}) =>
        /\ err # ""
        /\ \E i \in 1..Len(errs) : errs[i] = "zero verified"

\* C4 witness: every admitted query ended Partial, none breached a budget,
\* and Verify returned.
C4_Witness ==
    /\ VerifyReturned
    /\ Admitted # {}
    /\ Ended("partial") = Admitted
    /\ totalQueryDuration = 0

\* C5, as claimed: at Verify's return the running total is the sum of the
\* daily durations of the queries the backend executed, and the total
\* daily duration error is raised exactly when that sum is over its ceiling.
C5_TotalOverExecuted ==
    VerifyReturned =>
        LET sum == SumOver(Executed, [name \in Executed |-> DailyDuration(name)])
        IN  /\ totalQueryDuration = sum
            /\ HasError("total duration") <=> sum > c.MaxTotalQueryDurationPerDay

\* C5, amended: the running total is the sum over the executed queries
\* whose platform the host can run and whose run stayed within the single
\* run ceiling, whether or not they went on to breach the daily or the row
\* budget; the error is raised exactly when that sum is over its ceiling.
C5_TotalOverCosted ==
    VerifyReturned =>
        LET sum == SumOver(Costed, [name \in Costed |-> DailyDuration(name)])
        IN  /\ totalQueryDuration = sum
            /\ HasError("total duration") <=> sum > c.MaxTotalQueryDurationPerDay

\* C5 witness: two queries were costed, their sum is over the ceiling and
\* Verify returned the total daily duration error.
C5_Witness ==
    /\ VerifyReturned
    /\ Cardinality(Costed) = 2
    /\ totalQueryDuration > c.MaxTotalQueryDurationPerDay
    /\ HasError("total duration")

\* C6, as claimed: an executed query with a positive interval whose daily
\* duration is over the per-query ceiling ends Errored.
C6_DailyBreachErrored ==
    \A name \in Executed :
        (PositiveInterval(name) /\ DailyDuration(name) > c.maxQueryDurationPerDay)
            => outcome[name] = "errored"

\* C6, amended: such a query ends Errored when the host can run its
\* platform and Partial when it cannot; it never ends Verified.
C6_DailyBreachNotVerified ==
    \A name \in Executed :
        (PositiveInterval(name) /\ DailyDuration(name) > c.maxQueryDurationPerDay)
            => outcome[name] = IF HostIncompatible(name) THEN "partial" ELSE "errored"

\* C6 witness: a query ran within the single run ceiling on its own
\* platform, its daily duration is over the ceiling, and it ended Errored.
C6_Witness ==
    \E name \in Costed :
        /\ DailyDuration(name) > c.maxQueryDurationPerDay
        /\ ran[name].Rows = 0
        /\ outcome[name] = "errored"

\* C7: the engine never crashes on an interval, and a costed query whose
\* interval is no positive integer ends Errored.
C7_ScheduleErrorNoCrash ==
    /\ pc # "crashed"
    /\ \A name \in Costed : ~PositiveInterval(name) => outcome[name] = "errored"

\* C8: at Verify's return the errored count is the number of queries that
\* ended Errored, and the three counts add up to the admitted queries.
C8_TotalsExact ==
    VerifyReturned =>
        /\ errored = Cardinality(Ended("errored"))
        /\ verified + partial + errored = Cardinality(Admitted)

\* C9: once two source paths of loadAndApply held a query of the same
\* name, the load has failed with the conflict, applyConfig was not applied
\* and no query was handed to the semgroup or to the backend.
C9_ConflictAborts ==
    conflicted =>
        /\ pc = "failed"
        /\ err = "conflict"
        /\ ~applied
        /\ \A name \in QueryNames : task[name] = "none" /\ backendCalls[name] = 0

\* C9 witness: the second source path held a name of the first and the
\* load failed.
C9_Witness == conflicted /\ nloaded = 1 /\ pc = "failed"

\* C10: a command that got past its loading replaced no loaded query by
\* another of the same name.
C10_NoSilentReplacement ==
    pc \in {"dispatch", "returned", "crashed"} => ~shadowed

\* applyConfig returned nil.
Resolved == step = "applyConfig" /\ ~res.failed

\* The platforms of the allow-list.
AllowList == arg.c.Platforms \ {""}

\* The record passes the three filters: its name is not excluded, none of
\* its tags is, and the allow-list does not reject its platform.
PassesFilters(m) ==
    /\ m.Name \notin arg.c.Exclude
    /\ \A i \in 1..Len(m.Tags) : m.Tags[i] \notin arg.c.ExcludeTags
    /\ ~(AllowList # {} /\ m.Platform # "" /\ m.Platform \notin AllowList)

\* C11: after applyConfig returned nil, the map holds exactly the records
\* handed in that pass the name, tag and platform filters; a record of no
\* platform is never removed by the allow-list.
C11_ActiveSetIsFiltered ==
    Resolved =>
        DOMAIN res.mm = {n \in DOMAIN arg.mm : PassesFilters(arg.mm[n])}

\* C11 witness: under a non-empty allow-list a record of no platform was
\* kept while another record was removed.
C11_Witness ==
    /\ Resolved
    /\ AllowList # {}
    /\ \E n \in DOMAIN res.mm : arg.mm[n].Platform = ""
    /\ \E n \in DOMAIN arg.mm : n \notin DOMAIN res.mm /\ arg.mm[n].Platform = "windows"

\* What a rule makes of the running value v of a record carrying tags.
RuleApplied(v, r, tags) ==
    IF ~(\E i \in 1..Len(tags) : tags[i] = r.tag) THEN v
    ELSE IF r.mod.kind = "set" THEN r.mod.num
    ELSE IF r.mod.kind = "mul" THEN (v * r.mod.num) \div r.mod.den
    ELSE IF r.mod.kind = "div" THEN (v * r.mod.den) \div r.mod.num
    ELSE v

\* The left fold of the rules over the running value, first rule first.
RECURSIVE RulesFolded(_, _, _)
RulesFolded(v, rules, tags) ==
    IF rules = <<>> THEN v
    ELSE RulesFolded(RuleApplied(v, Head(rules), tags), Tail(rules), tags)

\* C12: calculateInterval returns the left fold of the table, in its order,
\* from the default interval: a rule of a tag the record lacks is skipped, an
\* integer or a duration replaces the running value, Nx multiplies it and
\* x/N divides it.  Under often=x/4,rapid=15s a record tagged often resolves
\* to 900 from 3600, and a record tagged rapid to 15 from any default.
C12_IntervalIsLeftFold ==
    step = "calculateInterval" =>
        /\ res = RulesFolded(arg.c.DefaultInterval, arg.rules, arg.m.Tags)
        /\ (/\ arg.c.TagIntervals = ShortTagIntervals
            /\ arg.m.Tags = <<Often>>
            /\ arg.c.DefaultInterval = 3600) => res = 900
        /\ (arg.c.TagIntervals = ShortTagIntervals /\ arg.m.Tags = <<Rapid>>)
             => res = 15

\* C12 witness: under often=x/4,rapid=15s and the default 3600 a record
\* tagged often resolved to 900.
C12_Witness ==
    /\ step = "calculateInterval"
    /\ arg.c.TagIntervals = ShortTagIntervals
    /\ arg.m.Tags = <<Often>>
    /\ arg.c.DefaultInterval = 3600
    /\ res = 900

\* often=x/4,rapid=15s as the rules it states.
ShortRules ==
    << [tag |-> Often,
        mod |-> [kind |-> "div", text |-> <<"x", "/", "4">>, num |-> 4, den |-> 1]],
       [tag |-> Rapid,
        mod |-> [kind |-> "set", text |-> <<"1", "5", "s">>, num |-> 15, den |-> 1]] >>

\* The interval of a record before clamping: its own when it has one, the
\* one its tags resolve to otherwise.
ResolvedInterval(m) ==
    IF m.Interval # <<>> THEN Atoi(m.Interval).val
    ELSE RulesFolded(arg.c.DefaultInterval, ShortRules, m.Tags)

Clamp(v, lower, upper) ==
    IF v > upper THEN upper ELSE IF v < lower THEN lower ELSE v

\* C13: after applyConfig returned nil under a lower bound no greater than
\* the upper one, the interval of every record left is its own interval, or
\* the tag-resolved one when it had none, clamped into [lower, upper]: it
\* lies within the bounds, 5 became 15 and 200000 became 86400 under the
\* bounds 15 and 86400.
C13_IntervalsClamped ==
    (Resolved /\ arg.c.MinInterval <= arg.c.MaxInterval) =>
        \A n \in DOMAIN res.mm :
            LET i == res.mm[n].Interval
                bounds1586400 == arg.c.MinInterval = 15 /\ arg.c.MaxInterval = 86400
            IN  /\ i = Itoa(Clamp(ResolvedInterval(arg.mm[n]),
                                  arg.c.MinInterval, arg.c.MaxInterval))
                /\ Atoi(i).val >= arg.c.MinInterval
                /\ Atoi(i).val <= arg.c.MaxInterval
                /\ (bounds1586400 /\ arg.mm[n].Interval = <<"5">>)
                     => i = <<"1", "5">>
                /\ (bounds1586400 /\ arg.mm[n].Interval = <<"2", "0", "0", "0", "0", "0">>)
                     => i = <<"8", "6", "4", "0", "0">>

\* C13 witness: under the bounds 15 and 86400 one record left came with the
\* interval 5 and has 15, another had no interval, carries rapid and has 15
\* too.
C13_Witness ==
    /\ Resolved
    /\ arg.c.MinInterval = 15
    /\ arg.c.MaxInterval = 86400
    /\ \E n \in DOMAIN res.mm :
         arg.mm[n].Interval = <<"5">> /\ res.mm[n].Interval = <<"1", "5">>
    /\ \E n \in DOMAIN res.mm :
         /\ arg.mm[n].Interval = <<>>
         /\ arg.mm[n].Tags = <<Rapid>>
         /\ res.mm[n].Interval = <<"1", "5">>

\* C14: when apply ran with --min-interval=8h and applyConfig accepted
\* every pack, every query left in the packs it goes on to render has the
\* interval 28800.
C14_MinIntervalSetsAll ==
    (step = "Apply" /\ arg.minIntervalFlag = EightHours /\ res.outcome # "error") =>
        \A i \in 1..Len(res.ps) :
            \A n \in DOMAIN res.ps[i].Queries :
                res.ps[i].Queries[n].Interval = Itoa(EightHours)

\* Parse returned a Metadata.
Parsed == step # "" /\ ~res.parsed.err

\* The source holds the line.
HasLine(l) == \E i \in 1..Len(arg.lines) : arg.lines[i] = l

\* The text is a decimal integer: digits after an optional sign.
IsIntegerText(s) ==
    LET digits == IF Len(s) > 0 /\ s[1] \in {"+", "-"} THEN Tail(s) ELSE s
    IN  /\ digits # <<>>
        /\ \A i \in 1..Len(digits) :
             digits[i] \in {"0", "1", "2", "3", "4", "5", "6", "7", "8", "9"}

\* The allow-list of the Config rejects the Metadata Parse returned.
ParsedRejected ==
    /\ res.c.Platforms # {""}
    /\ res.parsed.m.Platform # <<>>
    /\ PlatformOfChars(res.parsed.m.Platform) \notin res.c.Platforms

\* C15, as claimed: applyConfig returns no error on the Metadata of a
\* source Parse accepted, an interval directive of 6h included.
C15_ResolveAcceptsParsed ==
    step = "applyConfig" => ~res.failed

\* C15, amended: Parse accepts any text as the interval, and applyConfig
\* returns an error exactly when the record, unless the platform filter
\* removed it first, has an interval that is not empty and is no decimal
\* integer, such as 6h.
C15_ResolveFailsOnNonInteger ==
    step = "applyConfig" =>
        (res.failed <=>
            /\ ~ParsedRejected
            /\ res.parsed.m.Interval # <<>>
            /\ ~IsIntegerText(res.parsed.m.Interval))

\* C15 witness: the source says interval: 6h, Parse accepted it and
\* applyConfig returned an error.
C15_Witness ==
    /\ step = "applyConfig"
    /\ HasLine(Line.interval6h)
    /\ res.parsed.m.Interval = <<"6", "h">>
    /\ res.failed

\* The quote, "" for none, that is open after the first k characters of s: a
\* quote opens a literal, the same quote closes it.
RECURSIVE OpenQuote(_, _)
OpenQuote(s, k) ==
    IF k = 0 THEN ""
    ELSE LET before == OpenQuote(s, k - 1)
         IN  IF before = "" THEN (IF s[k] \in {"'", "\""} THEN s[k] ELSE "")
             ELSE IF s[k] = before THEN ""
             ELSE before

\* The quotes of the line are balanced and its first -- lies inside a
\* quoted literal.
DashesInLiteral(l) ==
    /\ Cut2(l, "-", "-").found
    /\ OpenQuote(l, Len(Cut2(l, "-", "-").before)) # ""
    /\ OpenQuote(l, Len(l)) = ""

\* sub occurs in s.
IsInfix(sub, s) ==
    \E k \in 0..(Len(s) - Len(sub)) : SubSeq(s, k + 1, k + Len(sub)) = sub

\* C16: a line whose -- lies inside a balanced quoted literal is kept whole,
\* the -- included, in the query text Parse returns.
C16_QuotedDashesKept ==
    (step = "Parse" /\ ~res.parsed.err) =>
        \A i \in 1..Len(arg.lines) :
            DashesInLiteral(arg.lines[i]) => IsInfix(arg.lines[i], res.parsed.m.Query)

\* ---------------------------------------------------------------- C17

\* A comment-only line of Parse: the line has a comment and, trimmed, starts
\* with "--".
CommentOnly(l) == lineHasComment(l) /\ HasPrefix(TrimSpace(l), <<"-", "-">>)

\* What follows the first "--" of a line, trimmed.
CommentContent(l) == TrimSpace(Cut2(l, "-", "-").after)

\* The lines of the parsed source that are comment-only, by their index.
CommentOnlyLines == {i \in 1..Len(arg.lines) : CommentOnly(arg.lines[i])}

\* C17, as stated: the description Parse returns is the content of the first
\* comment-only line of the source, wherever that line sits, and is empty
\* when the source has no such line.
C17_FirstCommentLineIsDescription ==
    (step = "Parse" /\ ~res.parsed.err) =>
        res.parsed.m.Description =
            IF CommentOnlyLines = {} THEN <<>>
            ELSE CommentContent(arg.lines[CHOOSE i \in CommentOnlyLines :
                                            \A k \in CommentOnlyLines : i <= k])

\* C17, amended: the description Parse returns is the content of the first
\* line of the source when that line is comment-only, whether or not the
\* content has a key: value shape; it is empty otherwise, whatever comment-only
\* lines come later.
C17_DescriptionFromFirstLine ==
    (step = "Parse" /\ ~res.parsed.err) =>
        res.parsed.m.Description =
            IF CommentOnly(arg.lines[1]) THEN CommentContent(arg.lines[1]) ELSE <<>>

\* Parse of "-- interval: 30" then "select 1;": the description is the
\* content of the first line, a directive.
C17_Witness ==
    /\ step = "Parse"
    /\ ~res.parsed.err
    /\ arg.lines = <<Line.interval30, Line.select>>
    /\ res.parsed.m.Description = <<"i", "n", "t", "e", "r", "v", "a", "l", ":", " ", "3", "0">>

\* ---------------------------------------------------------------- C18

\* A text without its white space.
RECURSIVE StripSpace(_)
StripSpace(s) ==
    IF s = <<>> THEN <<>>
    ELSE IF IsSpace(Head(s)) THEN StripSpace(Tail(s))
    ELSE <<Head(s)>> \o StripSpace(Tail(s))

\* Two records with the same query text modulo white space and the same
\* directives.
Equivalent(m, n) ==
    /\ StripSpace(m.Query) = StripSpace(n.Query)
    /\ m.Description = n.Description
    /\ m.Interval = n.Interval
    /\ m.Platform = n.Platform
    /\ m.Version = n.Version
    /\ m.Shard = n.Shard
    /\ m.Tags = n.Tags
    /\ m.Value = n.Value

SuffixPlatforms ==
    << <<<<"l", "i", "n", "u", "x">>, <<"l", "i", "n", "u", "x">>>>,
       <<<<"m", "a", "c", "o", "s">>, <<"d", "a", "r", "w", "i", "n">>>>,
       <<<<"d", "a", "r", "w", "i", "n">>, <<"d", "a", "r", "w", "i", "n">>>>,
       <<<<"p", "o", "s", "i", "x">>, <<"p", "o", "s", "i", "x">>>>,
       <<<<"u", "n", "i", "x">>, <<"p", "o", "s", "i", "x">>>>,
       <<<<"w", "i", "n", "d", "o", "w", "s">>, <<"w", "i", "n", "d", "o", "w", "s">>>>,
       <<<<"w", "i", "n">>, <<"w", "i", "n", "d", "o", "w", "s">>>> >>

\* The platform of the first suffix of the switch that the characters n end
\* with, the empty text when they end with none.
PlatformOfSuffix(n) ==
    LET hits == {k \in 1..Len(SuffixPlatforms) : HasSuffix(n, SuffixPlatforms[k][1])}
    IN  IF hits = {} THEN <<>>
        ELSE SuffixPlatforms[CHOOSE k \in hits : \A j \in hits : k <= j][2]

\* unicode.ToLower on the letters the names hold.
LowerCase(ch) ==
    IF ch = "L" THEN "l" ELSE IF ch = "W" THEN "w" ELSE IF ch = "I" THEN "i"
    ELSE IF ch = "N" THEN "n" ELSE ch

\* strings.ToLower(s)
ToLower(s) == [k \in 1..Len(s) |-> LowerCase(s[k])]

\* A comment-only line of the parsed source carries a platform directive
\* with some content.
PlatformDirected ==
    \E i \in CommentOnlyLines :
        LET dcut == Cut(CommentContent(arg.lines[i]), ":")
        IN  dcut.before = DirectiveName.platform /\ TrimSpace(dcut.after) # <<>>

\* C19, as stated: when no platform directive set the platform, the platform
\* Parse returns is the one of the known suffix the name ends with, letter
\* case aside, and is unset when the name ends with none.
C19_PlatformFromSuffixAnyCase ==
    (step = "Parse" /\ ~res.parsed.err /\ ~PlatformDirected) =>
        res.parsed.m.Platform = PlatformOfSuffix(ToLower(NameChars[arg.name]))

\* C19, amended: when no platform directive set the platform, the platform
\* Parse returns is the one of the known suffix the name ends with, in the
\* letter case of the suffix (lower case), and is unset when the name ends
\* with none, as a name that ends with Linux or WIN does.
C19_PlatformFromSuffixExactCase ==
    (step = "Parse" /\ ~res.parsed.err /\ ~PlatformDirected) =>
        res.parsed.m.Platform = PlatformOfSuffix(NameChars[arg.name])

\* Parse of a source without platform directive under the name app-win: the
\* platform is windows.
C19_Witness ==
    /\ step = "Parse"
    /\ ~res.parsed.err
    /\ ~PlatformDirected
    /\ arg.name = "appwin"
    /\ res.parsed.m.Platform = <<"w", "i", "n", "d", "o", "w", "s">>

\* ---------------------------------------------------------------- C20

\* The query object of the loaded file has an interval member, written as a
\* number or as a string.
HasIntervalMember == \E i \in 1..Len(arg.members) : MemberKey[arg.members[i]] = "interval"

\* C20: LoadPack accepts the interval of a query whether it is written as a
\* JSON number or as a JSON string, wherever it sits among the members of the
\* query object, the last place included, and the query gets the same
\* interval text, 3600, either way.
C20_IntervalNumberOrString ==
    (step = "LoadPack" /\ HasIntervalMember) =>
        /\ ~res.err
        /\ res.pack.Queries["dup"].Interval = <<"3", "6", "0", "0">>

\* ---------------------------------------------------------------- C21

\* The loaded query object has a member under the key given.
HasMember(key) == \E i \in 1..Len(arg.members) : MemberKey[arg.members[i]] = key

\* The query LoadPack returned.
LoadedQuery == res.pack.Queries["dup"]

\* The value the query gets for a field the pack has a default for: its own
\* when the object has the member, the default of the pack otherwise.
Defaulted(key, own, default) == IF HasMember(key) THEN own ELSE default

\* C21, as stated: after LoadPack the query has the platform, the version and
\* the shard of the pack where its object has none of its own, and its own
\* where it has one.
C21_PackDefaultsApplied ==
    (step = "LoadPack" /\ ~res.err) =>
        /\ LoadedQuery.Platform = Defaulted("platform", "darwin", arg.top.Platform)
        /\ LoadedQuery.Version = Defaulted("version", <<"1", ".", "4">>, arg.top.Version)
        /\ LoadedQuery.Shard = Defaulted("shard", 2, arg.top.Shard)

\* C21, amended: after LoadPack the query has the platform of the pack where
\* its object has none of its own, and its own where it has one; the version
\* and the shard of the pack are not applied: the query has the version and
\* the shard of its object, none (the empty text, 0) where the object has
\* none, and the pack keeps its own.
C21_PlatformDefaultApplied ==
    (step = "LoadPack" /\ ~res.err) =>
        /\ LoadedQuery.Platform = Defaulted("platform", "darwin", arg.top.Platform)
        /\ LoadedQuery.Version = Defaulted("version", <<"1", ".", "4">>, <<>>)
        /\ LoadedQuery.Shard = Defaulted("shard", 2, 0)
        /\ res.pack.Version = arg.top.Version
        /\ res.pack.Shard = arg.top.Shard

\* LoadPack of a pack with platform linux, version 5.0 and shard 50 whose
\* query has none of the three: the query gets linux, and no version or shard.
C21_Witness ==
    /\ step = "LoadPack"
    /\ ~res.err
    /\ arg.top = [Platform |-> "linux", Version |-> <<"5", ".", "0">>, Shard |-> 50]
    /\ ~HasMember("platform") /\ ~HasMember("version") /\ ~HasMember("shard")
    /\ LoadedQuery.Platform = "linux"
    /\ LoadedQuery.Version = <<>>
    /\ LoadedQuery.Shard = 0

\* ---------------------------------------------------------------- C22

\* C22: Apply on one or more pack files that load, whose queries applyConfig
\* accepts, does not crash: FlattenPacks returns the pack of all their
\* queries and Apply renders it.
C22_ApplyRendersFlattened ==
    (step = "Apply" /\ Len(arg.packs) >= 1 /\ res.outcome # "error") =>
        /\ ~FlattenPacks(res.ps).panic
        /\ res.outcome = "rendered"

\* ---------------------------------------------------------------- C23

\* A call of Verify is over: sg.Wait returned and Verify gave its result.
VerifyOver == step \in {"flag", "switch"} /\ pc \in {"switch", "returned", "exited"}

\* The tasks of the call that ended Verified.
ReachedVerified == {name \in DOMAIN mm : outcome[name] = "verified"}

\* The tasks query.Run returned to with the platform of the query foreign
\* to the host.
PlatformSkipped ==
    {name \in DOMAIN mm : ~vf[name].err /\ vf[name].IncompatiblePlatform # ""}

\* The tasks that made their additions to the two running sums.
Summed == {name \in DOMAIN mm : reachesSums(mm[name], vf[name], c)}

\* runsPerDay of a query of the active set.
RunsPerDay(name) == SecondsPerDay \div Atoi(mm[name].Interval).val

\* C23: whatever the interleaving of the tasks, when Verify is over no
\* addition to the shared counters is lost: verified is the number of
\* tasks that ended Verified, partial the number of tasks skipped for
\* their platform, and the two running sums are the sums of what each task
\* added, its daily duration and its runs per day.
C23_NoLostUpdate ==
    VerifyOver =>
        /\ verified = Cardinality(ReachedVerified)
        /\ partial = Cardinality(PlatformSkipped)
        /\ totalQueryDuration =
             SumOver(Summed, [name \in Summed |-> RunsPerDay(name) * vf[name].Elapsed])
        /\ totalRuns = SumOver(Summed, [name \in Summed |-> RunsPerDay(name)])

\* Two workers, two tasks, both Verified: each added its daily duration and
\* its runs to the sums.
C23_Witness ==
    /\ VerifyOver
    /\ c.Workers = 2
    /\ verified = 2
    /\ Cardinality(Summed) = 2
    /\ totalRuns = 24

\* ---------------------------------------------------------------- C24

\* The tasks that hold a permit of the semgroup: started and not yet ended.
InFlight ==
    {name \in QueryNames :
        task[name] \in {"started", "running", "returned", "addedDuration",
                        "addedRuns", "resulted"}}

\* C24: at every moment of a Verify run the tasks in execution are at most
\* as many as the -workers flag says, or as the host has CPUs when the flag
\* is zero or less.
C24_WorkersBound ==
    pc = "dispatch" =>
        Cardinality(InFlight)
            <= (IF arg.workersFlag <= 0 THEN arg.numCPU ELSE arg.workersFlag)

\* -workers=0 on a host of one CPU: one task is in osqueryi and holds the
\* only permit, the other one is not started.
C24_Witness ==
    /\ pc = "dispatch"
    /\ arg.workersFlag = 0
    /\ arg.numCPU = 1
    /\ task["dup"] = "running"
    /\ task["other"] = "none"
    /\ sem = 1

\* ---------------------------------------------------------------- C25

\* C25: in one invocation of the verify command osqueryi is started at most
\* once for a query of the active set, and exactly once by the time the
\* command returns, with --verify or without.
C25_BackendOncePerRecord ==
    action = "verify" =>
        /\ \A name \in QueryNames : backendCalls[name] <= 1
        /\ pc = "returned" => \A name \in DOMAIN mm : backendCalls[name] = 1

\* ---------------------------------------------------------------- C26

\* C26: Verify has no timeout of its own.  It gives its result only once
\* the osqueryi of every task has returned and the task has ended; and, as
\* long as every osqueryi does return, a Verify that has started its tasks
\* gives its result in the end, whatever the number of workers.
C26_ReturnsWhenBackendsReturn ==
    /\ [](VerifyOver => \A name \in DOMAIN mm : task[name] = "done")
    /\ (pc = "dispatch") ~> VerifyOver

\* ---------------------------------------------------------------- C27

\* The names of the list are in ascending order.
Ascending(names) ==
    \A i, j \in 1..Len(names) : i < j => NameRank[names[i]] < NameRank[names[j]]

\* C27: what is reported is in the order of the names whatever the order of
\* execution: the run command prints the results of the queries in
\* ascending order of their names, and the failures Verify returns are
\* listed in ascending order of the names under every interleaving of the
\* tasks.
C27_ReportsSortedByName ==
    /\ step = "run" => Ascending(res.lines)
    /\ VerifyOver => Ascending(sgErrs)

\* ---------------------------------------------------------------- C28

\* The interval text of the record is one applyConfig can resolve: none, or
\* an integer.
IntervalResolves(m) == m.Interval = <<>> \/ Atoi(m.Interval).ok

\* C28: a record that a filter of applyConfig removes, by its name, by a
\* tag or by its platform, is not processed any further and cannot make
\* applyConfig fail: when the interval of every record that passes the
\* filters resolves, applyConfig returns nil, whatever the interval text of
\* the records removed.
C28_ExcludedNeverFails ==
    (step = "applyConfig" /\ "mm" \in DOMAIN arg) =>
        ((\A name \in DOMAIN arg.mm :
             PassesFilters(arg.mm[name]) => IntervalResolves(arg.mm[name]))
         => ~res.failed)

\* ---------------------------------------------------------------- C29

\* A comment-only line whose content has no ":".
Bare(l) == CommentOnly(l) /\ ~Cut(CommentContent(l), ":").found

\* The parsed source with every such line emptied of its content.
WithoutBare ==
    [i \in 1..Len(arg.lines) |->
        IF Bare(arg.lines[i]) THEN <<"-", "-">> ELSE arg.lines[i]]

\* Parse of that source, under the same name.
ParsedWithoutBare == Parse(arg.name, JoinStrings(WithoutBare, <<"\n">>))

\* C29: a comment-only line without ":" is no directive, even when its
\* content is the name of one: Parse fails with such lines only if it fails
\* without their content, and the interval, platform, version, shard, tags
\* and value it returns are those it returns without their content.
C29_BareLineIsNoDirective ==
    step = "Parse" =>
        /\ res.parsed.err => ParsedWithoutBare.err
        /\ ~res.parsed.err =>
             /\ res.parsed.m.Interval = ParsedWithoutBare.m.Interval
             /\ res.parsed.m.Platform = ParsedWithoutBare.m.Platform
             /\ res.parsed.m.Version = ParsedWithoutBare.m.Version
             /\ res.parsed.m.Shard = ParsedWithoutBare.m.Shard
             /\ res.parsed.m.Tags = ParsedWithoutBare.m.Tags
             /\ res.parsed.m.Value = ParsedWithoutBare.m.Value

\* ---------------------------------------------------------------- C30

\* C30: a query is counted Verified only if osqueryi succeeded and its
\* stdout decoded as a JSON array of rows: an output that does not decode
\* is not taken for a result of no row.
C30_VerifiedOnlyWhenDecoded ==
    \A name \in QueryNames :
        outcome[name] = "verified" => ran[name].ok /\ ran[name].decoded

====
